---------------------------- MODULE Spec2Model ----------------------------
(***************************************************************************)
(* A model of farsite_utils: the ensemble post-processing loop             *)
(* (ensemble.py), the Layer summary and the landscape record codec         *)
(* (landscape.py).                                                         *)
(*                                                                         *)
(* Python sequences are 0-based; the sequences below are 1-based, so the   *)
(* element Python calls x[j] is x[j + 1] here.  Case indices stay 0-based. *)
(***************************************************************************)
EXTENDS Integers, Sequences, FiniteSets, TLC

VARIABLES
    size,       \* Ensemble.size: the number of cases
    job_id,     \* Case.job_id of every case (None until run())
    log,        \* the job log of every case: NoLog, or the set of its lines
    exported,   \* Ensemble.exported
    pp,         \* the running Ensemble.postProcess call: its locals and position
    layer,      \* a Layer object
    lraised,    \* whether the last assignment to layer.data raised
    ls,         \* a Landscape object
    disk,       \* the .lcp file writeLCP wrote: its header chunks and its body
    werr,       \* the exception the last writeLCP raised, "" for none
    rd,         \* the fresh Landscape readLCP read the file into
    phase,      \* "build", then "written" or "failed", then "read"
    nset,       \* the assignments made to the Landscape so far
    perimeters,         \* Case.perimeters: the perimeter records read
    perimeters_merged,  \* Case.perimeters_merged
    grid,               \* the grid of Case.lcp a burn map is computed on
    perimeter_poly,     \* the perimeter geometry handed to __burnMap
    burn,               \* the burn map __burnMap returned
    gpc,                \* "input", then "merged" or "burnt"
    others,             \* the other files of every case's root directory
    sched,              \* the least job id the scheduler may give next
    subs,               \* the submissions the scheduler took, in order
    poll,               \* the last status query made and its result
    heap,               \* the objects of the program by address
    ens,                \* the Ensemble object
    stats               \* the run of Ensemble.computeStatistics

postVars == <<size, job_id, log, exported, pp>>
layerVars == <<layer, lraised>>
lcpVars == <<ls, disk, werr, rd, phase, nset>>
geoVars == <<perimeters, perimeters_merged, grid, perimeter_poly, burn, gpc>>
caseVars == <<others, sched, subs, poll>>
ensVars == <<heap, ens, stats>>
vars == <<postVars, layerVars, lcpVars, geoVars, caseVars, ensVars>>

(***************************************************************************)
(* Bounds of the model.                                                    *)
(***************************************************************************)
MaxCases == 2       \* cases of an ensemble
MaxAttempts == 3    \* the attempts argument of postProcess
MaxIds == 2         \* length of an explicit case_ids argument
MaxBatch == 4       \* cases of an ensemble post-processed as one batch
MaxSmall == 3       \* columns of a small grid assigned to Layer.data
MaxOver == 1        \* columns of a wide grid above _NUM_VALS
MaxSet == 2         \* assignments to a Landscape before it is written
MaxPerims == 3      \* perimeter records read for a case
MaxGrid == 2        \* rows and columns of the grid a burn map is computed on
MaxFiles == 1       \* other files in the root directory of a case
MaxPolls == 2       \* status queries made of a case
MaxJobs == 3        \* submissions the scheduler takes from an ensemble
MaxMut == 2         \* assignments made to the objects of an ensemble
MaxSteps == 2       \* timesteps in the burn-fraction series of a case

\* the value of the variables of a component a specification leaves out
Unused == << >>

\* Python's None, for a value that is otherwise a one-element sequence
None == << >>
\* a root directory without a log for the case's job
NoLog == [exists |-> FALSE, lines |-> {}]
LogOf(lines) == [exists |-> TRUE, lines |-> lines]

Range(s) == {s[k] : k \in 1..Len(s)}

(***************************************************************************)
(* Case: the log sentinels and the status queries (case.py).               *)
(***************************************************************************)
LAUNCH == "Launching Farsite"
NO_IGNITION == "No ignition"
WRITING == "Writing outputs"
Lines == {LAUNCH, NO_IGNITION, WRITING}

RECURSIVE Digits(_)
Digits(i) == IF i < 10 THEN <<i>> ELSE Digits(i \div 10) \o <<i % 10>>

\* "{0:d}".format(n), as code points
FormatD(n) == [k \in 1..Len(Digits(n)) |-> 48 + Digits(n)[k]]

\* "{0:d}.out".format(self.job_id), line 490
LogPattern(id) == FormatD(id) \o <<46, 111, 117, 116>>

\* the log Slurm writes for job id under the options -J job and
\* -o "%x.%j.out" of SBatch: "job.<id>.out"
LogName(id) == <<106, 111, 98, 46>> \o FormatD(id) \o <<46, 111, 117, 116>>

\* p in s, for two strings
Contains(p, s) ==
    \E k \in 0..(Len(s) - Len(p)) : SubSeq(s, k + 1, k + Len(p)) = p

\* a file of a listing, without the place it has there
Entry(f) == [name |-> f.name, lines |-> f.lines]

Entries(fs) == [k \in 1..Len(fs) |-> Entry(fs[k])]

\* os.listdir(self.root_dir): the other files listed first, the log of the
\* case's job if it exists, the other files listed after it
listdir(c) ==
    Entries(SelectSeq(others[c], LAMBDA f : f.first))
    \o (IF log[c].exists
        THEN <<[name |-> LogName(job_id[c][1]), lines |-> log[c].lines]>>
        ELSE << >>)
    \o Entries(SelectSeq(others[c], LAMBDA f : ~f.first))

\* Case.logFile: the first file of the listing whose name holds
\* "<job_id>.out", as the lines of that file; None is NoLog
logFile(c) ==
    LET files == listdir(c)
        hits == {k \in 1..Len(files) : Contains(LogPattern(job_id[c][1]), files[k].name)}
    IN  IF hits = {} THEN NoLog
        ELSE LogOf(files[CHOOSE k \in hits : \A h \in hits : k <= h].lines)

isStarted(c) ==
    IF job_id[c] = None \/ job_id[c] = <<0>> THEN FALSE
    ELSE IF ~logFile(c).exists THEN FALSE
    ELSE LAUNCH \in logFile(c).lines

isDone(c) ==
    IF ~isStarted(c) THEN FALSE
    ELSE WRITING \in logFile(c).lines

ignitionFailed(c) ==
    IF ~isStarted(c) THEN FALSE
    ELSE NO_IGNITION \in logFile(c).lines

(***************************************************************************)
(* Ensemble (ensemble.py).                                                 *)
(***************************************************************************)
IGNITION_FAILED == "IGNITION_FAILED"
NOT_DONE_YET == "NOT_DONE_YET"
DONE == "DONE"
PENDING == "PENDING"

RECURSIVE CeilLog10From(_, _, _)
CeilLog10From(n, k, p) == IF p >= n THEN k ELSE CeilLog10From(n, k + 1, p * 10)

\* int(np.ceil(np.log10(n))) for n >= 1
CeilLog10(n) == CeilLog10From(n, 0, 1)

RECURSIVE ZeroPad(_, _)
ZeroPad(d, w) == IF Len(d) >= w THEN d ELSE ZeroPad(<<0>> \o d, w)

\* Ensemble.caseID: "{0:0{1}d}".format(i, int(np.ceil(np.log10(self.size-1)))).
\* np.log10(0) is -inf and np.log10(-1) is nan: int() of either raises.
caseIDRaises == size - 1 < 1

\* the string caseID returns, as its sequence of decimal digits
caseID(i) == ZeroPad(Digits(i), CeilLog10(size - 1))

arange(n) == [k \in 1..n |-> k - 1]

\* a postProcessCase that looks for the outputs before the ignition failure
postProcessCaseDoneFirst(c) ==
    IF isDone(c) THEN DONE
    ELSE IF ignitionFailed(c) THEN IGNITION_FAILED
    ELSE NOT_DONE_YET

\* Ensemble.postProcessCase reaches case.readOutput(), line 178
readsOutput(c) == ~ignitionFailed(c) /\ isDone(c)

\* Ensemble.postProcessCase: the status a worker returns for case c.
postProcessCase(c) ==
    IF ignitionFailed(c) THEN IGNITION_FAILED
    ELSE IF ~isDone(c) THEN NOT_DONE_YET
    ELSE DONE

\* The test of the collection loop: case_ids[j] is collected when this holds.
notYetExported(ids, j) == ~exported[j]

RECURSIVE Collect(_, _)
\* indices_to_export: the loop over enumerate(self.cases[case_ids]), j = 0..
Collect(ids, j) ==
    IF j >= Len(ids) THEN << >>
    ELSE (IF notYetExported(ids, j) THEN <<ids[j + 1]>> ELSE << >>)
         \o Collect(ids, j + 1)

\* the flag array after the result of the k-th collected case is recorded
GatherFlagByPosition(flags, idx, k, r) == [flags EXCEPT ![k - 1] = (r = DONE)]

GatherFlag(flags, idx, k, r) == [flags EXCEPT ![idx[k]] = (r = DONE)]

\* The loop over the results: the state after handling results[1..k].
\* A caseID that raises ends the loop with the flag of that case already set.
RECURSIVE Gathered(_, _, _, _)
Gathered(k, idx, res, acc) ==
    IF k > Len(res) \/ acc.raised THEN acc
    ELSE LET c == idx[k]
             flags == GatherFlag(acc.exported, idx, k, res[k])
             id == caseID(c)
         IN  IF res[k] = DONE
             THEN Gathered(k + 1, idx, res, [acc EXCEPT !.exported = flags])
             ELSE IF caseIDRaises
             THEN [acc EXCEPT !.exported = flags, !.raised = TRUE]
             ELSE IF res[k] = IGNITION_FAILED
             THEN Gathered(k + 1, idx, res,
                    [acc EXCEPT !.exported = flags,
                                !.failed = Append(acc.failed, id)])
             ELSE Gathered(k + 1, idx, res,
                    [acc EXCEPT !.exported = flags,
                                !.notdone = Append(acc.notdone, id)])

Idle == [pc |-> "idle", case_ids |-> << >>, attempts |-> 0, i |-> 0,
         indices_to_export |-> << >>, results |-> << >>,
         cases_ignition_failed |-> << >>, cases_not_done_yet |-> << >>,
         ret |-> << >>, passes |-> 0, sleeps |-> 0]

Cases == 0..(size - 1)

RECURSIVE DistinctSeqs(_, _)
\* the sequences of at most n distinct elements of S
DistinctSeqs(S, n) ==
    IF n = 0 THEN {<< >>}
    ELSE LET shorter == DistinctSeqs(S, n - 1)
         IN  shorter \cup {Append(s, x) : s \in shorter, x \in S}

IdChoices ==
    {s \in DistinctSeqs(Cases, MaxIds) : Len(s) > 0 /\ Cardinality(Range(s)) = Len(s)}

\* the case_ids argument: None (the default), or a sequence of case indices
CaseIdsArgs ==
    {[none |-> TRUE, ids |-> << >>]} \cup {[none |-> FALSE, ids |-> s] : s \in IdChoices}

\* postProcess(case_ids=arg, attempts=n): lines 188-193.
\* With attempts = 0 the loop body never runs and the return statement reads
\* two names that were never bound.
Call(arg, n) ==
    /\ pp.pc = "idle"
    /\ pp' = [Idle EXCEPT
                !.case_ids = IF arg.none THEN arange(size) ELSE arg.ids,
                !.attempts = n,
                !.pc = IF n = 0 THEN "raised" ELSE "attempt"]
    /\ UNCHANGED <<size, job_id, log, exported, layerVars, lcpVars, geoVars, caseVars, ensVars>>

\* One pass of the loop up to pool.map: lines 194-209.
StartAttempt ==
    /\ pp.pc = "attempt"
    /\ LET idx == Collect(pp.case_ids, 0)
       IN  pp' = [pp EXCEPT !.pc = "pool",
                            !.indices_to_export = idx,
                            !.results = [k \in 1..Len(idx) |-> PENDING],
                            !.cases_ignition_failed = << >>,
                            !.cases_not_done_yet = << >>,
                            !.passes = @ + 1]
    /\ UNCHANGED <<size, job_id, log, exported, layerVars, lcpVars, geoVars, caseVars, ensVars>>

\* results in the order in which the workers finished, were it the reverse
\* of the order of the cases
mappedByCompletion(idx, k) == idx[Len(idx) + 1 - k]

\* pool.map, lines 205-209: the k-th result is that of the k-th element of
\* cases_to_export, the case indices_to_export[k], whenever it was computed
mapped(idx, k) == idx[k]

\* A pool worker runs postProcessCase on a copy of the k-th collected case.
Worker(k) ==
    /\ pp.pc = "pool"
    /\ k \in 1..Len(pp.results)
    /\ pp.results[k] = PENDING
    /\ pp' = [pp EXCEPT !.results[k] =
                            postProcessCase(mapped(pp.indices_to_export, k))]
    /\ UNCHANGED <<size, job_id, log, exported, layerVars, lcpVars, geoVars, caseVars, ensVars>>

\* pool.map returned: lines 211-227, and line 229 after a break.
Gather ==
    /\ pp.pc = "pool"
    /\ \A k \in 1..Len(pp.results) : pp.results[k] # PENDING
    /\ LET g == Gathered(1, pp.indices_to_export, pp.results,
                   [exported |-> exported, failed |-> << >>,
                    notdone |-> << >>, raised |-> FALSE])
       IN  /\ exported' = g.exported
           /\ pp' = [pp EXCEPT
                  !.cases_ignition_failed = g.failed,
                  !.cases_not_done_yet = g.notdone,
                  !.pc = IF g.raised THEN "raised"
                         ELSE IF g.failed = << >> /\ g.notdone = << >>
                         THEN "returned" ELSE "sleep",
                  !.ret = IF g.raised THEN << >> ELSE g.failed \o g.notdone]
    /\ UNCHANGED <<size, job_id, log, layerVars, lcpVars, geoVars, caseVars, ensVars>>

\* time.sleep(pause_time) is over: the next pass, or line 229.
Wake ==
    /\ pp.pc = "sleep"
    /\ pp' = [pp EXCEPT !.sleeps = @ + 1,
                        !.i = @ + 1,
                        !.pc = IF pp.i + 1 < pp.attempts THEN "attempt"
                               ELSE "returned"]
    /\ UNCHANGED <<size, job_id, log, exported, layerVars, lcpVars, geoVars, caseVars, ensVars>>

(***************************************************************************)
(* The simulator job of a case, which appends to the case's log.  A worker *)
(* reads only the log of its own case and nothing else reads a log, so an  *)
(* append made while the pool runs is the same as one made just before the *)
(* pass started (the worker saw it) or just after pool.map returned (it    *)
(* did not): the appends are taken outside the pool phase, and those made  *)
(* after the call ended are taken once the caller has its result.          *)
(***************************************************************************)
JobLaunch(c) ==
    /\ pp.pc \in {"idle", "attempt", "sleep"}
    /\ log[c] = NoLog
    /\ log' = [log EXCEPT ![c] = LogOf({LAUNCH})]
    /\ UNCHANGED <<size, job_id, exported, pp, layerVars, lcpVars, geoVars, caseVars, ensVars>>

JobAppend(c, line) ==
    /\ pp.pc \in {"idle", "attempt", "sleep"}
    /\ log[c].exists
    /\ line \in {NO_IGNITION, WRITING}
    /\ log[c].lines = {LAUNCH}
    /\ log' = [log EXCEPT ![c] = LogOf(@.lines \cup {line})]
    /\ UNCHANGED <<size, job_id, exported, pp, layerVars, lcpVars, geoVars, caseVars, ensVars>>

\* The caller has the returned list, or the exception, and goes on.
Resume ==
    /\ pp.pc \in {"returned", "raised"}
    /\ pp' = Idle
    /\ UNCHANGED <<size, job_id, log, exported, layerVars, lcpVars, geoVars, caseVars, ensVars>>

\* The ensemble after Ensemble(n_cases=n) and Ensemble.run(): every case has
\* the job id of its submission, no job has written its log yet and the root
\* directories hold no other file.
Init ==
    /\ heap = Unused /\ ens = Unused /\ stats = Unused
    /\ size \in 1..MaxCases
    /\ job_id = [c \in 0..(size - 1) |-> <<c + 1>>]
    /\ log = [c \in 0..(size - 1) |-> NoLog]
    /\ exported = [c \in 0..(size - 1) |-> FALSE]
    /\ pp = Idle
    /\ layer = Unused /\ lraised = Unused
    /\ ls = Unused /\ disk = Unused /\ werr = Unused
    /\ rd = Unused /\ phase = Unused /\ nset = Unused
    /\ perimeters = Unused /\ perimeters_merged = Unused /\ grid = Unused
    /\ perimeter_poly = Unused /\ burn = Unused /\ gpc = Unused
    /\ others = [c \in 0..(size - 1) |-> << >>]
    /\ sched = Unused /\ subs = Unused /\ poll = Unused

Next ==
    \/ \E arg \in CaseIdsArgs, n \in 0..MaxAttempts : Call(arg, n)
    \/ StartAttempt
    \/ \E k \in 1..size : Worker(k)
    \/ Gather
    \/ Wake
    \/ Resume
    \/ \E c \in Cases : JobLaunch(c)
    \/ \E c \in Cases, line \in {NO_IGNITION, WRITING} : JobAppend(c, line)

Spec == Init /\ [][Next]_vars

(***************************************************************************)
(* A batch: an ensemble in which one case never finishes and every other   *)
(* case is done, post-processed with the default case_ids.  The flags of   *)
(* the finished cases are those some earlier postProcess call may have     *)
(* left.                                                                   *)
(***************************************************************************)
InitBatch ==
    /\ heap = Unused /\ ens = Unused /\ stats = Unused
    /\ size \in 1..MaxBatch
    /\ job_id = [c \in 0..(size - 1) |-> <<c + 1>>]
    /\ \E k \in 0..(size - 1) :
          /\ log \in [0..(size - 1) -> {NoLog, LogOf({LAUNCH}), LogOf({LAUNCH, WRITING})}]
          /\ \A c \in 0..(size - 1) : (log[c] = LogOf({LAUNCH, WRITING})) <=> (c # k)
          /\ exported \in [0..(size - 1) -> BOOLEAN]
          /\ ~exported[k]
    /\ pp = Idle
    /\ layer = Unused /\ lraised = Unused
    /\ ls = Unused /\ disk = Unused /\ werr = Unused
    /\ rd = Unused /\ phase = Unused /\ nset = Unused
    /\ perimeters = Unused /\ perimeters_merged = Unused /\ grid = Unused
    /\ perimeter_poly = Unused /\ burn = Unused /\ gpc = Unused
    /\ others = [c \in 0..(size - 1) |-> << >>]
    /\ sched = Unused /\ subs = Unused /\ poll = Unused

NextBatch ==
    \/ \E n \in 0..MaxAttempts : Call([none |-> TRUE, ids |-> << >>], n)
    \/ StartAttempt
    \/ \E k \in 1..size : Worker(k)
    \/ Gather
    \/ Wake
    \/ Resume
    \/ \E c \in Cases : JobLaunch(c)

SpecBatch == InitBatch /\ [][NextBatch]_vars

(***************************************************************************)
(* An ensemble whose jobs have all ended, with any lines in their logs,    *)
(* post-processed once or again.                                           *)
(***************************************************************************)
InitLogs ==
    /\ heap = Unused /\ ens = Unused /\ stats = Unused
    /\ size \in 1..MaxCases
    /\ job_id = [c \in 0..(size - 1) |-> <<c + 1>>]
    /\ log \in [0..(size - 1) -> {NoLog} \cup {LogOf(S) : S \in SUBSET Lines}]
    /\ exported = [c \in 0..(size - 1) |-> FALSE]
    /\ pp = Idle
    /\ layer = Unused /\ lraised = Unused
    /\ ls = Unused /\ disk = Unused /\ werr = Unused
    /\ rd = Unused /\ phase = Unused /\ nset = Unused
    /\ perimeters = Unused /\ perimeters_merged = Unused /\ grid = Unused
    /\ perimeter_poly = Unused /\ burn = Unused /\ gpc = Unused
    /\ others = [c \in 0..(size - 1) |-> << >>]
    /\ sched = Unused /\ subs = Unused /\ poll = Unused

NextLogs ==
    \/ \E arg \in CaseIdsArgs : Call(arg, 1)
    \/ StartAttempt
    \/ \E k \in 1..size : Worker(k)
    \/ Gather
    \/ Wake
    \/ Resume

SpecLogs == InitLogs /\ [][NextLogs]_vars



(***************************************************************************)
(* Case.run and the status queries of one case (case.py), with the files   *)
(* the job and anyone else put into the case's root directory.             *)
(***************************************************************************)
\* a run that sets the id on a copy of the case
runCopy(jobs, c, id) == jobs

\* Case.run, lines 478-482: the case keeps the id sbatch printed
runCase(jobs, c, id) == [jobs EXCEPT ![c] = <<id>>]

NoPoll == [c |-> 0, q |-> "", r |-> FALSE, n |-> 0]
Queries == {"isStarted", "isDone", "ignitionFailed"}

\* what the query q of case c returns
Answer(c, q) ==
    CASE q = "isStarted" -> isStarted(c)
      [] q = "isDone" -> isDone(c)
      [] q = "ignitionFailed" -> ignitionFailed(c)

\* a query that forgets the job id it used
queriedReset(c) == [job_id EXCEPT ![c] = None]

\* the job ids of the cases after a query of case c: lines 485-544 assign to
\* no field of the case
queried(c) == job_id

\* other files: job.12.out of some job 12 and "readme", with the lines of a
\* run, listed before or after the log of the case's job
OtherFiles ==
    [name : {LogName(12), <<114, 101, 97, 100, 109, 101>>},
     lines : {{LAUNCH}, {LAUNCH, WRITING}},
     first : BOOLEAN]

\* case.run(): the scheduler gives a job id that is new, so no log of that
\* job exists yet
CaseRun(c) ==
    /\ job_id[c] = None
    /\ \E id \in sched..(sched + 1) :
          /\ \A k \in 1..Len(others[c]) : others[c][k].name # LogName(id)
          /\ job_id' = runCase(job_id, c, id)
          /\ sched' = id + 1
          /\ subs' = Append(subs, [c |-> c, id |-> id])
    /\ UNCHANGED <<size, log, exported, pp, others, poll, layerVars, lcpVars, geoVars, ensVars>>

\* the job of the case starts: Slurm creates its log
LogCreate(c) ==
    /\ job_id[c] # None
    /\ ~log[c].exists
    /\ log' = [log EXCEPT ![c] = LogOf({})]
    /\ UNCHANGED <<size, job_id, exported, pp, caseVars, layerVars, lcpVars, geoVars, ensVars>>

\* the job appends a line to its log
LogAppend(c, line) ==
    /\ log[c].exists
    /\ line \notin log[c].lines
    /\ log' = [log EXCEPT ![c] = LogOf(@.lines \cup {line})]
    /\ UNCHANGED <<size, job_id, exported, pp, caseVars, layerVars, lcpVars, geoVars, ensVars>>

\* someone puts another file into the root directory
FileCreate(c, f) ==
    /\ Len(others[c]) < MaxFiles
    /\ job_id[c] # None => f.name # LogName(job_id[c][1])
    /\ others' = [others EXCEPT ![c] = Append(@, f)]
    /\ UNCHANGED <<size, job_id, log, exported, pp, sched, subs, poll,
                   layerVars, lcpVars, geoVars, ensVars>>

\* case.isStarted(), case.isDone() or case.ignitionFailed()
Query(c, q) ==
    /\ poll.n < MaxPolls
    /\ poll' = [c |-> c, q |-> q, r |-> Answer(c, q), n |-> poll.n + 1]
    /\ job_id' = queried(c)
    /\ UNCHANGED <<size, log, exported, pp, others, sched, subs,
                   layerVars, lcpVars, geoVars, ensVars>>

\* Case(): job_id = None (line 106), in an empty root directory
InitCase ==
    /\ heap = Unused /\ ens = Unused /\ stats = Unused
    /\ size = 1
    /\ job_id = [c \in 0..(size - 1) |-> None]
    /\ log = [c \in 0..(size - 1) |-> NoLog]
    /\ others = [c \in 0..(size - 1) |-> << >>]
    /\ sched \in {2, 12}
    /\ subs = << >>
    /\ poll = NoPoll
    /\ exported = Unused /\ pp = Unused
    /\ layer = Unused /\ lraised = Unused
    /\ ls = Unused /\ disk = Unused /\ werr = Unused
    /\ rd = Unused /\ phase = Unused /\ nset = Unused
    /\ perimeters = Unused /\ perimeters_merged = Unused /\ grid = Unused
    /\ perimeter_poly = Unused /\ burn = Unused /\ gpc = Unused

NextCase ==
    \/ \E c \in Cases : CaseRun(c)
    \/ \E c \in Cases : LogCreate(c)
    \/ \E c \in Cases, line \in Lines : LogAppend(c, line)
    \/ \E c \in Cases, f \in OtherFiles : FileCreate(c, f)
    \/ \E c \in Cases, q \in Queries : Query(c, q)

SpecCase == InitCase /\ [][NextCase]_vars

(***************************************************************************)
(* Ensemble.run (ensemble.py): one submission after the other.             *)
(***************************************************************************)
RECURSIVE runCases(_, _, _, _)
\* the loop of lines 152-153 from the k-th element of ids on: self.cases[ids]
\* holds the ensemble's own Case objects.  gaps[k] is the number of jobs
\* others submitted just before the k-th submission.
runCases(st, ids, gaps, k) ==
    IF k > Len(ids) THEN st
    ELSE LET id == st.sched + gaps[k]
         IN  runCases([job_id |-> runCase(st.job_id, ids[k], id),
                       sched |-> id + 1,
                       subs |-> Append(st.subs, [c |-> ids[k], id |-> id])],
                      ids, gaps, k + 1)

\* Ensemble.run(case_ids=arg)
EnsembleRun(arg) ==
    LET ids == IF arg.none THEN arange(size) ELSE arg.ids
    IN  /\ Len(subs) + Len(ids) <= MaxJobs
        /\ \E gaps \in [1..Len(ids) -> 0..1] :
              LET st == runCases([job_id |-> job_id, sched |-> sched, subs |-> subs],
                                 ids, gaps, 1)
              IN  /\ job_id' = st.job_id
                  /\ sched' = st.sched
                  /\ subs' = st.subs
        /\ UNCHANGED <<size, log, exported, pp, others, poll,
                       layerVars, lcpVars, geoVars, ensVars>>

\* Ensemble(n_cases=size): deep copies of the prototype, none submitted
InitRun ==
    /\ heap = Unused /\ ens = Unused /\ stats = Unused
    /\ size \in 1..(MaxCases + 1)
    /\ job_id = [c \in 0..(size - 1) |-> None]
    /\ sched = 1
    /\ subs = << >>
    /\ log = Unused /\ others = Unused /\ poll = Unused
    /\ exported = Unused /\ pp = Unused
    /\ layer = Unused /\ lraised = Unused
    /\ ls = Unused /\ disk = Unused /\ werr = Unused
    /\ rd = Unused /\ phase = Unused /\ nset = Unused
    /\ perimeters = Unused /\ perimeters_merged = Unused /\ grid = Unused
    /\ perimeter_poly = Unused /\ burn = Unused /\ gpc = Unused

NextRun == \E arg \in CaseIdsArgs : EnsembleRun(arg)

SpecRun == InitRun /\ [][NextRun]_vars

(***************************************************************************)
(* Ensemble.__init__ and the name and root_dir setters (ensemble.py).  The *)
(* heap holds the objects by address: a Case is a record of its plain      *)
(* fields and of the addresses of its Landscape layer data, its SBatch     *)
(* options and its weather table, each of them a sequence of numbers.      *)
(***************************************************************************)
\* the sub-objects of a Case
Parts == {"lcp", "sbatch", "weather"}

\* copy.copy(prototype): a new Case that refers to the sub-objects of h[a]
shallowcopy(h, a) == [heap |-> Append(h, h[a]), addr |-> Len(h) + 1]

\* copy.deepcopy(prototype), line 46: a new Case and new sub-objects
deepcopy(h, a) ==
    LET n == Len(h)
    IN  [heap |-> h \o <<[h[a] EXCEPT !.lcp = n + 2, !.sbatch = n + 3,
                                      !.weather = n + 4],
                         h[h[a].lcp], h[h[a].sbatch], h[h[a].weather]>>,
         addr |-> n + 1]

RECURSIVE copies(_, _, _, _)
\* [copy.deepcopy(prototype) for i in range(n_cases)]
copies(h, a, n, acc) ==
    IF n = 0 THEN [heap |-> h, cases |-> acc]
    ELSE LET c == deepcopy(h, a)
         IN  copies(c.heap, a, n - 1, Append(acc, c.addr))

\* Case(): the fields of lines 76-106 that the ensemble or its user sets
NewCase ==
    <<[name |-> <<"case">>, root_dir |-> <<"./">>, job_id |-> None,
       lcp |-> 2, sbatch |-> 3, weather |-> 4],
      <<0, 0>>, <<1>>, <<5>>>>

Prototype == 1

\* the name setter, lines 75-80.  caseID raises in the first round of the
\* loop when the ensemble has one case, after _name was set.
SetName(value) ==
    /\ ~ens.raised
    /\ ens._name = None
    /\ IF size > 0 /\ caseIDRaises
       THEN /\ ens' = [ens EXCEPT !._name = <<value>>, !.raised = TRUE]
            /\ heap' = heap
       ELSE /\ ens' = [ens EXCEPT !._name = <<value>>]
            /\ heap' = [a \in 1..Len(heap) |->
                          IF \E i \in 1..size : ens.cases[i] = a
                          THEN LET i == CHOOSE i \in 1..size : ens.cases[i] = a
                               IN  [heap[a] EXCEPT
                                      !.name = <<value, "_">> \o caseID(i - 1)]
                          ELSE heap[a]]
    /\ UNCHANGED <<stats, postVars, layerVars, lcpVars, geoVars, caseVars>>

\* the root_dir setter, lines 89-97
SetRootDir(value) ==
    /\ ~ens.raised
    /\ ens._root_dir = None
    /\ IF size > 0 /\ caseIDRaises
       THEN /\ ens' = [ens EXCEPT !._root_dir = <<value>>, !.raised = TRUE]
            /\ heap' = heap
       ELSE /\ ens' = [ens EXCEPT !._root_dir = <<value>>]
            /\ heap' = [a \in 1..Len(heap) |->
                          IF \E i \in 1..size : ens.cases[i] = a
                          THEN LET i == CHOOSE i \in 1..size : ens.cases[i] = a
                               IN  [heap[a] EXCEPT
                                      !.root_dir = <<value, "./cases">> \o caseID(i - 1)]
                          ELSE heap[a]]
    /\ UNCHANGED <<stats, postVars, layerVars, lcpVars, geoVars, caseVars>>

\* the Case objects of the program: the prototype and the ensemble's cases
CaseObjects == {Prototype} \cup Range(ens.cases)

\* case.job_id = 7 or case.name = "mine", on the Case at address a
SetField(a, field) ==
    /\ ens.nmut < MaxMut
    /\ heap' = [heap EXCEPT ![a] =
                  IF field = "job_id" THEN [@ EXCEPT !.job_id = <<7>>]
                  ELSE [@ EXCEPT !.name = <<"mine">>]]
    /\ ens' = [ens EXCEPT !.nmut = @ + 1]
    /\ UNCHANGED <<stats, postVars, layerVars, lcpVars, geoVars, caseVars>>

\* an assignment inside a sub-object of the Case at address a:
\* case.lcp.layers['fuel'].data[0, 0] = 9, an option added to
\* case.sbatch.options, a row added to the weather table
SetPart(a, part) ==
    /\ ens.nmut < MaxMut
    /\ LET at == IF part = "lcp" THEN heap[a].lcp
                 ELSE IF part = "sbatch" THEN heap[a].sbatch
                 ELSE heap[a].weather
       IN  heap' = [heap EXCEPT ![at] =
                      IF part = "lcp" THEN [@ EXCEPT ![1] = 9]
                      ELSE Append(@, 9)]
    /\ ens' = [ens EXCEPT !.nmut = @ + 1]
    /\ UNCHANGED <<stats, postVars, layerVars, lcpVars, geoVars, caseVars>>

\* Ensemble(n_cases=size, prototype=Case()), lines 45-55, without a name and
\* a root directory
InitEnsemble ==
    /\ size \in 1..(MaxCases + 1)
    /\ LET c == copies(NewCase, Prototype, size, << >>)
       IN  /\ heap = c.heap
           /\ ens = [cases |-> c.cases, _name |-> None, _root_dir |-> None,
                     raised |-> FALSE, nmut |-> 0]
    /\ exported = [c \in 0..(size - 1) |-> FALSE]
    /\ stats = Unused
    /\ job_id = Unused /\ log = Unused /\ pp = Unused
    /\ layer = Unused /\ lraised = Unused
    /\ ls = Unused /\ disk = Unused /\ werr = Unused
    /\ rd = Unused /\ phase = Unused /\ nset = Unused
    /\ perimeters = Unused /\ perimeters_merged = Unused /\ grid = Unused
    /\ perimeter_poly = Unused /\ burn = Unused /\ gpc = Unused
    /\ others = Unused /\ sched = Unused /\ subs = Unused /\ poll = Unused

NextEnsemble ==
    \/ \E value \in {"ens"} : SetName(value)
    \/ \E value \in {"/work"} : SetRootDir(value)
    \/ \E a \in CaseObjects, field \in {"job_id", "name"} : SetField(a, field)
    \/ \E a \in CaseObjects, part \in Parts : SetPart(a, part)

SpecEnsemble == InitEnsemble /\ [][NextEnsemble]_vars

(***************************************************************************)
(* Layer (landscape.py).  A grid is a 2D int16 array: its shape and its    *)
(* cells in row-major order.                                               *)
(***************************************************************************)
_NUM_VALS == 100
_NODATA_VALUE == -9999

Grid(north, east, v) == [north |-> north, east |-> east, v |-> v]

\* np.zeros(shape, dtype=int16)
zeros(north, east) == Grid(north, east, [k \in 1..(north * east) |-> 0])

GridSize(g) == g.north * g.east

\* data[i, j]
Cell(g, i, j) == g.v[i * g.east + j + 1]

amin(S) == CHOOSE x \in S : \A y \in S : x <= y
amax(S) == 0 - amin({0 - x : x \in S})

RECURSIVE Ascending(_)
\* the elements of a set of integers in ascending order: the least first,
\* or all at once when they leave few gaps
Ascending(S) ==
    IF S = {} THEN << >>
    ELSE LET lo == amin(S)
             hi == amax(S)
         IN  IF hi - lo < 2 * Cardinality(S)
             THEN SelectSeq([k \in 1..(hi - lo + 1) |-> lo + k - 1],
                            LAMBDA x : x \in S)
             ELSE <<lo>> \o Ascending(S \ {lo})

\* np.unique(value): the distinct values, ascending
unique(g) == Ascending(Range(g.v))

ZeroVals == [k \in 1.._NUM_VALS |-> 0]

\* whether line 165 puts a 0 in front of the table
PrependZero(vals_unique) == vals_unique[1] # 0

\* self.vals[0:self.num] = vals_unique
SliceAssign(vals, num, vu) == [k \in 1.._NUM_VALS |-> IF k <= num THEN vu[k] ELSE vals[k]]

\* The Layer.data setter, lines 144-168: the layer after `layer.data = value`
\* and whether the assignment raised.  np.amin raises on an empty array; the
\* slice assignment of line 167 raises when the table has more than _NUM_VALS
\* entries, after lo, hi, vals and num were set.
DataSetter(l, value) ==
    IF GridSize(value) = 0 THEN [layer |-> l, raised |-> TRUE]
    ELSE LET S == Range(value.v)
             vals_unique == unique(value)
             n == Len(vals_unique)
             l1 == [l EXCEPT !.lo = amin(S), !.hi = amax(S), !.vals = ZeroVals]
         IN  IF n > _NUM_VALS
             THEN [layer |-> [l1 EXCEPT !.num = -1, !.data = value], raised |-> FALSE]
             ELSE IF n = _NUM_VALS /\ _NODATA_VALUE \in S
             THEN [layer |-> [l1 EXCEPT !.num = -1, !.data = value], raised |-> FALSE]
             ELSE IF n = _NUM_VALS /\ 0 \notin S
             THEN [layer |-> [l1 EXCEPT !.num = -1, !.data = value], raised |-> FALSE]
             ELSE LET vu == IF PrependZero(vals_unique)
                            THEN <<0>> \o vals_unique ELSE vals_unique
                      num == Len(vu)
                  IN  IF num > _NUM_VALS
                      THEN [layer |-> [l1 EXCEPT !.num = num], raised |-> TRUE]
                      ELSE [layer |-> [l1 EXCEPT !.num = num,
                                                 !.vals = SliceAssign(l1.vals, num, vu),
                                                 !.data = value],
                            raised |-> FALSE]

\* Layer.__init__(shape), lines 47-57
NewLayer(north, east) ==
    DataSetter([lo |-> 0, hi |-> 0, num |-> 0, vals |-> ZeroVals,
                unit_opts |-> 0, file |-> << >>, data |-> zeros(0, 0)],
               zeros(north, east)).layer

\* The grids assigned: `rows` equal rows of n cells that count up from
\* `start`, plain, or with the first cell of the grid set to the no-data
\* value, or with the last cell of every row set to the first value.
RunGrid(rows, n, start, variant) ==
    Grid(rows, n,
         [k \in 1..(rows * n) |->
            LET j == (k - 1) % n
            IN  IF variant = "nodata" /\ k = 1 THEN _NODATA_VALUE
                ELSE IF variant = "dup" /\ j = n - 1 THEN start
                ELSE start + j])

GridWidths == (0..MaxSmall) \cup ((_NUM_VALS - 1)..(_NUM_VALS + MaxOver))
GridRows == {1, 2}
GridStarts == {-2, -1, 0, 1}

LayerGrids ==
    {RunGrid(rows, n, start, variant) :
        rows \in GridRows, n \in GridWidths, start \in GridStarts,
        variant \in {"plain", "nodata", "dup"}}

\* layer.data = g
SetData(g) ==
    /\ \E r \in {DataSetter(layer, g)} :
          /\ layer' = r.layer
          /\ lraised' = r.raised
    /\ UNCHANGED <<postVars, lcpVars, geoVars, caseVars, ensVars>>

\* a Layer as Layer(shape) makes it
InitLayer ==
    /\ heap = Unused /\ ens = Unused /\ stats = Unused
    /\ \E shape \in GridRows \X (1..MaxSmall) :
          layer = NewLayer(shape[1], shape[2])
    /\ lraised = FALSE
    /\ ls = Unused /\ disk = Unused /\ werr = Unused
    /\ rd = Unused /\ phase = Unused /\ nset = Unused
    /\ perimeters = Unused /\ perimeters_merged = Unused /\ grid = Unused
    /\ perimeter_poly = Unused /\ burn = Unused /\ gpc = Unused
    /\ others = Unused /\ sched = Unused /\ subs = Unused /\ poll = Unused
    /\ size = Unused /\ job_id = Unused /\ log = Unused
    /\ exported = Unused /\ pp = Unused

NextLayer == \E g \in LayerGrids : SetData(g)

SpecLayer == InitLayer /\ [][NextLayer]_vars

\* the table vals[0:num] of a layer
Table(l) == SubSeq(l.vals, 1, l.num)

NonDecreasing(s) == \A k \in 1..(Len(s) - 1) : s[k] <= s[k + 1]

\* C7: after a grid was assigned to Layer.data, vals[0:num] is sorted
\* ascending and contains 0, and num = -1 exactly when the grid holds more
\* than _NUM_VALS distinct values, vals then being all zero.
C7_CategoricalInvariant ==
    ~lraised =>
       /\ (layer.num = -1) <=> (Cardinality(Range(layer.data.v)) > _NUM_VALS)
       /\ layer.num = -1 => layer.vals = ZeroVals
       /\ layer.num # -1 =>
             /\ NonDecreasing(Table(layer))
             /\ 0 \in Range(Table(layer))

\* C30: an assignment of a grid to Layer.data succeeds and leaves num at -1
\* or in 1.._NUM_VALS with the table inside the _NUM_VALS entries of vals;
\* an assignment that raises leaves lo, hi, num, vals and data as they were.
C30_SetterAllOrNothing ==
    [][ /\ ~lraised'
        /\ ~lraised' =>
              /\ layer'.num = -1 \/ layer'.num \in 1.._NUM_VALS
              /\ Len(layer'.vals) = _NUM_VALS
        /\ lraised' => layer' = layer ]_vars

(***************************************************************************)
(* Landscape (landscape.py).  A string is the sequence of its code points; *)
(* a file is the sequence of the chunks written to it, a chunk being the   *)
(* values struct.pack laid out with one format character.                  *)
(***************************************************************************)
_HEADER_LENGTH == 7316
_LOHINUMVAL_LENGTH == 412
_FILE_STRING_LENGTH == 256
_DESCRIPTION_LENGTH == 512

_LAYER_NAMES_REQUIRED == <<"elevation", "slope", "aspect", "fuel", "cover">>
_LAYER_NAMES_CROWN == <<"height", "base", "density">>
_LAYER_NAMES_GROUND == <<"duff", "woody">>
_LAYER_NAMES == _LAYER_NAMES_REQUIRED \o _LAYER_NAMES_CROWN \o _LAYER_NAMES_GROUND

\* Landscape.__init__(shape=(north, east)), lines 177-200
Landscape(north, east) ==
    [crown_fuels |-> 20, ground_fuels |-> 20, latitude |-> 0,
     lo_east |-> 0, hi_east |-> 0, lo_north |-> 0, hi_north |-> 0,
     num_north |-> north, num_east |-> east,
     utm_east |-> 0, utm_west |-> 0, utm_north |-> 0, utm_south |-> 0,
     units_grid |-> 0, res_x |-> 0, res_y |-> 0,
     description |-> << >>,
     layers |-> [name \in Range(_LAYER_NAMES) |-> NewLayer(north, east)]]

crownPresentRaises(l) == l.crown_fuels \notin {20, 21}
\* a variant that takes the crown bands as present whatever the flag
crownAlways(l) == TRUE
\* Landscape.crownPresent, lines 248-254
crownPresent(l) == l.crown_fuels = 21

groundPresentRaises(l) == l.ground_fuels \notin {20, 21}
groundPresent(l) == l.ground_fuels = 21

\* the bytes of one value under a struct format character; "B" is a raw byte
TypeSize(t) ==
    CASE t = "i" -> 4
      [] t = "d" -> 8
      [] t = "h" -> 2
      [] t = "B" -> 1

\* struct.pack with the format character t repeated once per value
pack(t, v) == [t |-> t, v |-> v]
ChunkSize(c) == Len(c.v) * TypeSize(c.t)

RECURSIVE Tell(_)
\* file.tell(): the bytes in the chunks
Tell(chunks) ==
    IF chunks = << >> THEN 0
    ELSE ChunkSize(Head(chunks)) + Tell(Tail(chunks))

RECURSIVE OffsetsFrom(_, _, _)
OffsetsFrom(chunks, k, at) ==
    IF k > Len(chunks) THEN << >>
    ELSE <<at>> \o OffsetsFrom(chunks, k + 1, at + ChunkSize(chunks[k]))

\* the byte offset at which every chunk starts
Offsets(chunks) == OffsetsFrom(chunks, 1, 0)

\* data[a:b], with `at` the offsets of the chunks of data: the values laid
\* out from byte a on, none when the data ends before byte a
Slice(data, at, a, b) ==
    IF \E k \in 1..Len(data) : at[k] = a
    THEN data[CHOOSE k \in 1..Len(data) : at[k] = a].v
    ELSE << >>

\* the UTF-8 bytes of a code point below 2048
utf8(cp) == IF cp < 128 THEN <<cp>> ELSE <<192 + (cp \div 64), 128 + (cp % 64)>>

RECURSIVE encodeRange(_, _, _)
\* the bytes of the characters s[a..b], by halves
encodeRange(s, a, b) ==
    IF a > b THEN << >>
    ELSE IF a = b THEN utf8(s[a])
    ELSE LET mid == (a + b) \div 2
         IN  encodeRange(s, a, mid) \o encodeRange(s, mid + 1, b)

\* str.encode('utf-8'); ASCII text is its own encoding
encode(s) == IF \A k \in 1..Len(s) : s[k] < 128 THEN s ELSE encodeRange(s, 1, Len(s))

\* bytes.decode('utf-8') of well-formed UTF-8 below code point 2048: every
\* byte that is not a continuation byte starts a character
decode(b) ==
    IF \A k \in 1..Len(b) : b[k] < 128 THEN b
    ELSE
    LET starts == SelectSeq([k \in 1..Len(b) |-> k],
                            LAMBDA k : b[k] < 128 \/ b[k] >= 192)
    IN  [n \in 1..Len(starts) |->
           LET k == starts[n]
           IN  IF b[k] < 128 THEN b[k]
               ELSE (b[k] - 192) * 64 + (b[k + 1] - 128)]

\* the length of the part of s before its first NUL
BeforeNul(s) == Cardinality({k \in 1..Len(s) : \A m \in 1..k : s[m] # 0})

\* _parseEncodedString, lines 30-32
_parseEncodedString(chunk) ==
    LET decoded == decode(chunk)
    IN  SubSeq(decoded, 1, BeforeNul(decoded))

\* _buildEncodedString, lines 41-43: the format pads with NUL up to `length`
\* characters and leaves a longer string as it is
_buildEncodedString(s, length) ==
    LET padded == s \o [k \in 1..(IF length > Len(s) THEN length - Len(s) ELSE 0) |-> 0]
    IN  encode(padded)

\* _buildLoHiNumVal, lines 35-38
_buildLoHiNumVal(lo, hi, num, vals) == pack("i", <<lo, hi, num>> \o vals)

\* _parseLoHiNumVal, lines 24-27
_parseLoHiNumVal(chunk) ==
    [lo |-> chunk[1], hi |-> chunk[2], num |-> chunk[3],
     vals |-> SubSeq(chunk, 4, 3 + _NUM_VALS)]

\* Landscape.__writeHeader up to the length test, lines 342-359
writeHeader(l) ==
    <<pack("i", <<l.crown_fuels, l.ground_fuels, l.latitude>>),
      pack("d", <<l.lo_east, l.hi_east, l.lo_north, l.hi_north>>)>>
    \o [k \in 1..Len(_LAYER_NAMES) |->
          LET layer_k == l.layers[_LAYER_NAMES[k]]
          IN  _buildLoHiNumVal(layer_k.lo, layer_k.hi, layer_k.num, layer_k.vals)]
    \o <<pack("i", <<l.num_east, l.num_north>>),
         pack("d", <<l.utm_east, l.utm_west, l.utm_north, l.utm_south>>),
         pack("i", <<l.units_grid>>),
         pack("d", <<l.res_x, l.res_y>>),
         pack("h", [k \in 1..Len(_LAYER_NAMES) |-> l.layers[_LAYER_NAMES[k]].unit_opts])>>
    \o [k \in 1..Len(_LAYER_NAMES) |->
          pack("B", _buildEncodedString(l.layers[_LAYER_NAMES[k]].file,
                                        _FILE_STRING_LENGTH))]
    \o <<pack("B", _buildEncodedString(l.description, _DESCRIPTION_LENGTH))>>

\* a variant that writes every value twice
PutValueTwice(body, v) == body \o <<v, v>>
\* file.write(struct.pack('h', v))
PutValue(body, v) == Append(body, v)

RECURSIVE WriteBands(_, _, _, _, _)
\* for name in names: file.write(struct.pack('h', self.layers[name].data[i,j]))
WriteBands(l, names, i, j, out) ==
    IF names = << >> \/ out.err # "" THEN out
    ELSE LET data == l.layers[Head(names)].data
         IN  IF i >= data.north \/ j >= data.east
             THEN [out EXCEPT !.err = "IndexError"]
             ELSE WriteBands(l, Tail(names), i, j,
                             [out EXCEPT !.body = PutValue(@, Cell(data, i, j))])

\* the body of the cell loop of __writeBody, lines 368-378
WriteCell(l, i, j, out) ==
    LET o1 == WriteBands(l, _LAYER_NAMES_REQUIRED, i, j, out)
        o2 == IF o1.err # "" THEN o1
              ELSE IF crownPresentRaises(l) THEN [o1 EXCEPT !.err = "ValueError"]
              ELSE IF crownPresent(l) THEN WriteBands(l, _LAYER_NAMES_CROWN, i, j, o1)
              ELSE o1
    IN  IF o2.err # "" THEN o2
        ELSE IF groundPresentRaises(l) THEN [o2 EXCEPT !.err = "ValueError"]
        ELSE IF groundPresent(l) THEN WriteBands(l, _LAYER_NAMES_GROUND, i, j, o2)
        ELSE o2

RECURSIVE writeBody(_, _, _)
\* Landscape.__writeBody, lines 365-378, from the c-th cell in row-major order
writeBody(l, c, out) ==
    IF c >= l.num_north * l.num_east \/ out.err # "" THEN out
    ELSE writeBody(l, c + 1, WriteCell(l, c \div l.num_east, c % l.num_east, out))

\* Landscape.writeLCP, lines 381-384: what the file holds when it is closed
\* and the exception raised, "" for none
writeLCP(l) ==
    LET header == writeHeader(l)
    IN  IF Tell(header) # _HEADER_LENGTH
        THEN [header |-> header, body |-> << >>, err |-> "IOError"]
        ELSE LET out == writeBody(l, 0, [body |-> << >>, err |-> ""])
             IN  [header |-> header, body |-> out.body, err |-> out.err]

\* a variant that takes the grid dimensions in north, east order
ParseDimsNorthFirst(v) == [num_east |-> v[2], num_north |-> v[1]]
\* (self.num_east, self.num_north) = struct.unpack('ii', ...), line 275
ParseDims(v) == [num_east |-> v[1], num_north |-> v[2]]

\* the position of a layer in _LAYER_NAMES, from 0
LayerIndex(name) == (CHOOSE k \in 1..Len(_LAYER_NAMES) : _LAYER_NAMES[k] = name) - 1

\* Landscape.__parseHeader, lines 266-292, on a fresh Landscape
parseHeader(data) ==
    LET at == Offsets(data)
        flags == Slice(data, at, 0, 12)
        bounds == Slice(data, at, 12, 44)
        dims == ParseDims(Slice(data, at, 4164, 4172))
        utm == Slice(data, at, 4172, 4204)
        res == Slice(data, at, 4208, 4224)
        unit_opts_arr == Slice(data, at, 4224, 4244)
    IN  [crown_fuels |-> flags[1], ground_fuels |-> flags[2], latitude |-> flags[3],
         lo_east |-> bounds[1], hi_east |-> bounds[2],
         lo_north |-> bounds[3], hi_north |-> bounds[4],
         num_north |-> dims.num_north, num_east |-> dims.num_east,
         utm_east |-> utm[1], utm_west |-> utm[2],
         utm_north |-> utm[3], utm_south |-> utm[4],
         units_grid |-> Slice(data, at, 4204, 4208)[1],
         res_x |-> res[1], res_y |-> res[2],
         description |-> _parseEncodedString(Slice(data, at, 6804, 7316)),
         layers |-> [name \in Range(_LAYER_NAMES) |->
            LET k == LayerIndex(name)
                lat == 44 + k * _LOHINUMVAL_LENGTH
                t == _parseLoHiNumVal(Slice(data, at, lat, lat + _LOHINUMVAL_LENGTH))
                fat == 4244 + k * _FILE_STRING_LENGTH
            IN  [lo |-> t.lo, hi |-> t.hi, num |-> t.num, vals |-> t.vals,
                 unit_opts |-> unit_opts_arr[k + 1],
                 file |-> _parseEncodedString(
                             Slice(data, at, fat, fat + _FILE_STRING_LENGTH)),
                 data |-> zeros(dims.num_north, dims.num_east)]]]

RECURSIVE ReadBands(_, _, _, _, _)
\* for name in names:
\*     self.layers[name].data[i,j] = struct.unpack('h', data[data_i:data_i+2])[0]
\* with st the Landscape, the read position data_i and the exception raised
ReadBands(st, names, i, j, body) ==
    IF names = << >> \/ st.err # "" THEN st
    ELSE IF st.data_i + 2 > 2 * Len(body)
    THEN [st EXCEPT !.err = "struct.error"]
    ELSE ReadBands(
           [st EXCEPT !.l.layers[Head(names)].data.v[i * st.l.num_east + j + 1] =
                         body[(st.data_i \div 2) + 1],
                      !.data_i = @ + 2],
           Tail(names), i, j, body)

\* the body of the cell loop of __parseBody, lines 299-312
ReadCell(st, i, j, body) ==
    LET s1 == ReadBands(st, _LAYER_NAMES_REQUIRED, i, j, body)
        s2 == IF s1.err # "" THEN s1
              ELSE IF crownPresentRaises(s1.l) THEN [s1 EXCEPT !.err = "ValueError"]
              ELSE IF crownPresent(s1.l) THEN ReadBands(s1, _LAYER_NAMES_CROWN, i, j, body)
              ELSE s1
    IN  IF s2.err # "" THEN s2
        ELSE IF groundPresentRaises(s2.l) THEN [s2 EXCEPT !.err = "ValueError"]
        ELSE IF groundPresent(s2.l) THEN ReadBands(s2, _LAYER_NAMES_GROUND, i, j, body)
        ELSE s2

RECURSIVE parseBody(_, _, _)
\* Landscape.__parseBody, lines 295-312, from the c-th cell in row-major order
parseBody(st, c, body) ==
    IF c >= st.l.num_north * st.l.num_east \/ st.err # "" THEN st
    ELSE parseBody(ReadCell(st, c \div st.l.num_east, c % st.l.num_east, body),
                   c + 1, body)

\* Every struct.unpack of __parseHeader (lines 267-283) reads a slice that
\* ends at or before byte 4244 and raises struct.error when the slice is
\* short; the strings read after it (lines 287-292) are decoded whatever
\* their length.
parseHeaderRaises(data) == Tell(data) < 4244

\* Landscape.readLCP, lines 315-323, of a file whose first _HEADER_LENGTH
\* bytes are the chunks of `file.header`
readLCP(file) ==
    IF parseHeaderRaises(file.header)
    THEN [l |-> << >>, data_i |-> 0, err |-> "struct.error"]
    ELSE parseBody([l |-> parseHeader(file.header), data_i |-> 0, err |-> ""],
                   0, file.body)

\* a grid whose cells count up from `start` in row-major order
CountGrid(north, east, start) ==
    Grid(north, east, [k \in 1..(north * east) |-> start + k - 1])

\* the grids assigned to a layer of the landscape l: one of the declared
\* shape and a larger one, and for a required layer a smaller one as well
LcpGrids(l, name) ==
    {CountGrid(l.num_north, l.num_east, 1), CountGrid(2, 2, 3)}
    \cup (IF name \in Range(_LAYER_NAMES_REQUIRED) THEN {CountGrid(1, 1, 7)} ELSE {})

Str(cp, n) == [k \in 1..n |-> cp]

\* descriptions: empty, "ab", "a\0b", one "a" more than the field holds,
\* "é" (two bytes), and the two-byte character as often as the field holds
Descriptions ==
    {<< >>, <<97, 98>>, <<97, 0, 98>>, Str(97, _DESCRIPTION_LENGTH + 1),
     <<233>>, Str(233, _DESCRIPTION_LENGTH \div 2)}

NoFile == [header |-> << >>, body |-> << >>]
NotRead == [l |-> << >>, data_i |-> 0, err |-> ""]

\* lcp.layers[name].data = g
SetLayerData(name, g) ==
    /\ phase = "build"
    /\ nset < MaxSet
    /\ ls' = [ls EXCEPT !.layers[name] = DataSetter(@, g).layer]
    /\ nset' = nset + 1
    /\ UNCHANGED <<disk, werr, rd, phase, postVars, layerVars, geoVars, caseVars, ensVars>>

\* lcp.crown_fuels = v
SetCrownFuels(v) ==
    /\ phase = "build"
    /\ ls.crown_fuels # v
    /\ ls' = [ls EXCEPT !.crown_fuels = v]
    /\ UNCHANGED <<disk, werr, rd, phase, nset, postVars, layerVars, geoVars, caseVars, ensVars>>

\* lcp.ground_fuels = v
SetGroundFuels(v) ==
    /\ phase = "build"
    /\ ls.ground_fuels # v
    /\ ls' = [ls EXCEPT !.ground_fuels = v]
    /\ UNCHANGED <<disk, werr, rd, phase, nset, postVars, layerVars, geoVars, caseVars, ensVars>>

\* lcp.description = s
SetDescription(s) ==
    /\ phase = "build"
    /\ nset < MaxSet
    /\ ls.description # s
    /\ ls' = [ls EXCEPT !.description = s]
    /\ nset' = nset + 1
    /\ UNCHANGED <<disk, werr, rd, phase, postVars, layerVars, geoVars, caseVars, ensVars>>

\* the latitude, the bounds, the units flag and the resolution are given
\* values that differ from field to field
SetGeoref ==
    /\ phase = "build"
    /\ nset < MaxSet
    /\ ls.latitude = 0
    /\ ls' = [ls EXCEPT !.latitude = 37,
                        !.lo_east = 1, !.hi_east = 2, !.lo_north = 3, !.hi_north = 4,
                        !.utm_east = 6, !.utm_west = 5, !.utm_north = 8, !.utm_south = 7,
                        !.units_grid = 1, !.res_x = 30, !.res_y = 31]
    /\ nset' = nset + 1
    /\ UNCHANGED <<disk, werr, rd, phase, postVars, layerVars, geoVars, caseVars, ensVars>>

\* lcp.writeLCP(filename)
WriteLCP ==
    /\ phase = "build"
    /\ \E r \in {writeLCP(ls)} :
          /\ disk' = [header |-> r.header, body |-> r.body]
          /\ werr' = r.err
          /\ phase' = IF r.err = "" THEN "written" ELSE "failed"
    /\ UNCHANGED <<ls, rd, nset, postVars, layerVars, geoVars, caseVars, ensVars>>

\* Landscape().readLCP(filename) of the file a completed writeLCP left, or
\* of what is left of that file
ReadLCP ==
    /\ phase \in {"written", "cut"}
    /\ rd' = readLCP(disk)
    /\ phase' = "read"
    /\ UNCHANGED <<ls, disk, werr, nset, postVars, layerVars, geoVars, caseVars, ensVars>>

LcpShapes == {<<1, 2>>, <<2, 1>>}

\* a Landscape as Landscape(shape=...) makes it, and no file
InitLcp ==
    /\ heap = Unused /\ ens = Unused /\ stats = Unused
    /\ \E shape \in LcpShapes : ls = Landscape(shape[1], shape[2])
    /\ disk = NoFile
    /\ werr = ""
    /\ rd = NotRead
    /\ phase = "build"
    /\ nset = 0
    /\ perimeters = Unused /\ perimeters_merged = Unused /\ grid = Unused
    /\ perimeter_poly = Unused /\ burn = Unused /\ gpc = Unused
    /\ others = Unused /\ sched = Unused /\ subs = Unused /\ poll = Unused
    /\ layer = Unused /\ lraised = Unused
    /\ size = Unused /\ job_id = Unused /\ log = Unused
    /\ exported = Unused /\ pp = Unused

NextLcp ==
    \/ \E name \in Range(_LAYER_NAMES) : \E g \in LcpGrids(ls, name) : SetLayerData(name, g)
    \/ \E v \in {20, 21} : SetCrownFuels(v)
    \/ \E v \in {20, 21} : SetGroundFuels(v)
    \/ \E s \in Descriptions : SetDescription(s)
    \/ SetGeoref
    \/ WriteLCP
    \/ ReadLCP

SpecLcp == InitLcp /\ [][NextLcp]_vars

(***************************************************************************)
(* More ways to change a Landscape and its file: a cell written in place,  *)
(* the declared shape, a layer's file reference, a file that lost its      *)
(* tail, and the decoded Landscape written again.                          *)
(***************************************************************************)
\* lcp.layers[name].data[i, j] = v: the array is changed in place and the
\* setter of Layer.data does not run
SetCell(name, i, j, v) ==
    /\ phase = "build"
    /\ nset < MaxSet
    /\ i < ls.layers[name].data.north /\ j < ls.layers[name].data.east
    /\ Cell(ls.layers[name].data, i, j) # v
    /\ ls' = [ls EXCEPT !.layers[name].data.v[i * ls.layers[name].data.east + j + 1] = v]
    /\ nset' = nset + 1
    /\ UNCHANGED <<disk, werr, rd, phase, postVars, layerVars, geoVars, caseVars, ensVars>>

\* lcp.shape = (north, east), lines 242-245
SetShape(north, east) ==
    /\ phase = "build"
    /\ nset < MaxSet
    /\ <<ls.num_north, ls.num_east>> # <<north, east>>
    /\ ls' = [ls EXCEPT !.num_north = north, !.num_east = east]
    /\ nset' = nset + 1
    /\ UNCHANGED <<disk, werr, rd, phase, postVars, layerVars, geoVars, caseVars, ensVars>>

\* lcp.layers[name].file = s
SetLayerFile(name, s) ==
    /\ phase = "build"
    /\ nset < MaxSet
    /\ ls.layers[name].file # s
    /\ ls' = [ls EXCEPT !.layers[name].file = s]
    /\ nset' = nset + 1
    /\ UNCHANGED <<disk, werr, rd, phase, postVars, layerVars, geoVars, caseVars, ensVars>>

\* The file loses everything after its first k chunks.
Truncate(k) ==
    /\ phase = "written"
    /\ k < Len(disk.header)
    /\ disk' = [header |-> SubSeq(disk.header, 1, k), body |-> << >>]
    /\ phase' = "cut"
    /\ UNCHANGED <<ls, werr, rd, nset, postVars, layerVars, geoVars, caseVars, ensVars>>

\* the decoded Landscape is written: rd.writeLCP(filename)
WriteDecoded ==
    /\ phase = "read"
    /\ rd.err = ""
    /\ \E r \in {writeLCP(rd.l)} :
          /\ disk' = [header |-> r.header, body |-> r.body]
          /\ werr' = r.err
    /\ phase' = "rewritten"
    /\ UNCHANGED <<ls, rd, nset, postVars, layerVars, geoVars, caseVars, ensVars>>

\* the layers edited, the cell values written in place, the file references
\* (one that fits, one a character longer than the field) and the chunks
\* kept of a file: those below byte 4224, below byte 4244, below byte 6804
EditNames == {"fuel", "height"}
CellValues0 == {5}
FileRefs == {<<97>>, Str(97, _FILE_STRING_LENGTH + 1)}
Cuts == {16, 17, 27}

NextCodec ==
    \/ \E name \in EditNames : \E g \in LcpGrids(ls, name) : SetLayerData(name, g)
    \/ \E name \in EditNames : \E i \in {0, 1}, j \in {0, 1}, v \in CellValues0 :
          SetCell(name, i, j, v)
    \/ SetShape(0, 0)
    \/ \E v \in {20, 21} : SetCrownFuels(v)
    \/ \E s \in Descriptions : SetDescription(s)
    \/ \E s \in FileRefs : SetLayerFile("fuel", s)
    \/ WriteLCP
    \/ \E k \in Cuts : Truncate(k)
    \/ ReadLCP
    \/ WriteDecoded

SpecCodec == InitLcp /\ [][NextCodec]_vars

(***************************************************************************)
(* Case.__convertAndMergePerimeters (case.py).  A perimeter record is its  *)
(* elapsed time in minutes and its boundary; a geometry is the set of the  *)
(* records whose boundaries it covers, and whether it is valid.            *)
(***************************************************************************)
Abs(x) == IF x < 0 THEN 0 - x ELSE x

\* np.isclose(a, b): |a - b| <= atol + rtol * |b| with atol = 1e-8 and
\* rtol = 1e-5.  For integers a and b that is 100000 * |a - b| <= |b|.
isclose(a, b) == Abs(a - b) <= Abs(b) \div 100000

\* geometry.Polygon(self.perimeters.geometry[i])
Polygon(p, i) == [region |-> {i}, valid |-> p[i].valid]

\* poly.buffer(0)
buffer0(poly) == [poly EXCEPT !.valid = TRUE]

\* a union that keeps the last polygon of the list only
unionOfLast(polys) ==
    LET all == UNION {poly.region : poly \in polys}
    IN  [region |-> {i \in all : \A j \in all : j <= i}, valid |-> TRUE]

\* unary_union(polys)
unary_union(polys) ==
    [region |-> UNION {poly.region : poly \in polys}, valid |-> TRUE]

\* the row appended to perimeters_merged: the record `row` with the union
\* of the group as its geometry
MergedRow(row, polys) ==
    [Elapsed_Mi |-> row.Elapsed_Mi, geometry |-> unary_union(polys)]

RECURSIVE MergeFrom(_, _, _, _, _)
\* the loop of lines 563-577 from record i on (the code's i is i - 1), then
\* lines 580-583
MergeFrom(p, i, elapsed_minutes, polys, merged) ==
    IF i > Len(p)
    THEN Append(merged, MergedRow(p[Len(p)], polys))
    ELSE LET poly == Polygon(p, i)
             fixed == IF ~poly.valid THEN buffer0(poly) ELSE poly
         IN  IF ~isclose(p[i].Elapsed_Mi, elapsed_minutes)
             THEN MergeFrom(p, i + 1, p[i].Elapsed_Mi, {fixed},
                            Append(merged, MergedRow(p[i - 1], polys)))
             ELSE MergeFrom(p, i + 1, elapsed_minutes, polys \cup {fixed}, merged)

\* Case.__convertAndMergePerimeters, lines 555-583, on at least one record
convertAndMergePerimeters(p) == MergeFrom(p, 1, p[1].Elapsed_Mi, {}, << >>)

\* the elapsed times of the records: minutes, some of them months
Times == {0, 5, 10, 200000, 200001}

RECURSIVE NonDecreasingSeqs(_, _)
\* the non-decreasing sequences of at most n elements of S
NonDecreasingSeqs(S, n) ==
    IF n = 0 THEN {<< >>}
    ELSE LET shorter == NonDecreasingSeqs(S, n - 1)
             longest == {u \in shorter : Len(u) = n - 1}
         IN  shorter \cup
             {Append(u, x) : <<u, x>> \in
                {ux \in longest \X S :
                    Len(ux[1]) = 0 \/ ux[1][Len(ux[1])] <= ux[2]}}

ConvertAndMerge ==
    /\ gpc = "input"
    /\ perimeters_merged' = convertAndMergePerimeters(perimeters)
    /\ gpc' = "merged"
    /\ UNCHANGED <<perimeters, grid, perimeter_poly, burn, caseVars,
                   postVars, layerVars, lcpVars, ensVars>>

\* the records self.perimeters holds after readOutput read them: at least
\* one, their times non-decreasing
InitMerge ==
    /\ heap = Unused /\ ens = Unused /\ stats = Unused
    /\ \E times \in NonDecreasingSeqs(Times, MaxPerims) :
          /\ Len(times) > 0
          /\ \E valid \in [1..Len(times) -> BOOLEAN] :
                perimeters = [k \in 1..Len(times) |->
                                [Elapsed_Mi |-> times[k], valid |-> valid[k]]]
    /\ perimeters_merged = << >>
    /\ gpc = "input"
    /\ grid = Unused /\ perimeter_poly = Unused /\ burn = Unused
    /\ others = Unused /\ sched = Unused /\ subs = Unused /\ poll = Unused
    /\ layer = Unused /\ lraised = Unused
    /\ ls = Unused /\ disk = Unused /\ werr = Unused
    /\ rd = Unused /\ phase = Unused /\ nset = Unused
    /\ size = Unused /\ job_id = Unused /\ log = Unused
    /\ exported = Unused /\ pp = Unused

NextMerge == ConvertAndMerge

SpecMerge == InitMerge /\ [][NextMerge]_vars

(***************************************************************************)
(* Case.__burnMap (case.py).  A box is an axis-aligned rectangle, a        *)
(* perimeter geometry is a set of boxes (a polygon, or a multipolygon of   *)
(* two parts), and a float is a fraction <<n, d>> in lowest terms.         *)
(***************************************************************************)
Min2(a, b) == IF a <= b THEN a ELSE b
Max2(a, b) == IF a >= b THEN a ELSE b

RECURSIVE GCD(_, _)
GCD(a, b) == IF b = 0 THEN a ELSE GCD(b, a % b)

\* a / b as a float, for a >= 0 and b > 0
Float(a, b) == <<a \div GCD(a, b), b \div GCD(a, b)>>

\* geometry.box(minx, miny, maxx, maxy)
box(minx, miny, maxx, maxy) == [x0 |-> minx, y0 |-> miny, x1 |-> maxx, y1 |-> maxy]

\* a.intersection(b) of two boxes; x1 < x0 or y1 < y0 when they are apart
clip(a, b) ==
    box(Max2(a.x0, b.x0), Max2(a.y0, b.y0), Min2(a.x1, b.x1), Min2(a.y1, b.y1))

\* box.area
boxArea(b) ==
    IF b.x1 > b.x0 /\ b.y1 > b.y0 THEN (b.x1 - b.x0) * (b.y1 - b.y0) ELSE 0

RECURSIVE intersectionArea(_, _)
\* cell.intersection(perimeter_poly).area
intersectionArea(cell, poly) ==
    IF poly = {} THEN 0
    ELSE LET part == CHOOSE b \in poly : TRUE
             rest == poly \ {part}
         IN  boxArea(clip(cell, part)) + intersectionArea(cell, rest)
                - intersectionArea(clip(cell, part), rest)

\* prepared_perimeter.intersects(cell): they share a point, be it only of
\* their boundaries
intersects(poly, cell) ==
    \E b \in poly : /\ b.x0 <= cell.x1 /\ cell.x0 <= b.x1
                    /\ b.y0 <= cell.y1 /\ cell.y0 <= b.y1

\* what a perimeter that `contains` every cell it touches would give
containsTouched(poly, cell) == intersects(poly, cell)

\* prepared_perimeter.contains(cell): no point of the cell is outside
contains(poly, cell) == intersectionArea(cell, poly) = boxArea(cell)

\* the cell of lines 663-667
CellBox(g, i, j) ==
    box(j * g.res_x + g.utm_west, i * g.res_y + g.utm_south,
        (j + 1) * g.res_x + g.utm_west, (i + 1) * g.res_y + g.utm_south)

\* a burn value that is the covered area, not its share of the cell
BurnCellArea(g, poly, i, j) ==
    LET cell == CellBox(g, i, j)
    IN  IF contains(poly, cell) THEN Float(1, 1)
        ELSE IF intersects(poly, cell)
             THEN Float(intersectionArea(cell, poly), 1)
             ELSE Float(0, 1)

\* burn[i, j] after lines 668-671; np.zeros gave it 0.0
BurnCell(g, poly, i, j) ==
    LET cell == CellBox(g, i, j)
    IN  IF contains(poly, cell) THEN Float(1, 1)
        ELSE IF intersects(poly, cell)
             THEN Float(intersectionArea(cell, poly), boxArea(cell))
             ELSE Float(0, 1)

\* Case.__burnMap
burnMap(g, poly) ==
    Grid(g.num_north, g.num_east,
         [k \in 1..(g.num_north * g.num_east) |->
            BurnCell(g, poly, (k - 1) \div g.num_east, (k - 1) % g.num_east)])

\* the corners a perimeter part may have, as offsets from the grid's
\* south-west corner: beside the grid, on cell edges and inside cells
Corners == {-10, 0, 5, 10, 15, 20, 40}

Boxes(g) ==
    {box(g.utm_west + xs[1], g.utm_south + ys[1],
         g.utm_west + xs[2], g.utm_south + ys[2]) :
        xs \in {c \in Corners \X Corners : c[1] < c[2]},
        ys \in {c \in Corners \X Corners : c[1] < c[2]}}

\* polygons of one box and two multipolygons
Perimeters(g) ==
    {{b} : b \in Boxes(g)} \cup
    {{box(g.utm_west, g.utm_south, g.utm_west + 5, g.utm_south + 5),
      box(g.utm_west + 5, g.utm_south, g.utm_west + 15, g.utm_south + 20)},
     {box(g.utm_west - 10, g.utm_south - 10, g.utm_west, g.utm_south),
      box(g.utm_west + 15, g.utm_south + 5, g.utm_west + 20, g.utm_south + 15)}}

BurnMap ==
    /\ gpc = "input"
    /\ burn' = burnMap(grid, perimeter_poly)
    /\ gpc' = "burnt"
    /\ UNCHANGED <<perimeters, perimeters_merged, grid, perimeter_poly,
                   caseVars, postVars, layerVars, lcpVars, ensVars>>

\* a landscape of cells of positive size and one perimeter
InitBurn ==
    /\ heap = Unused /\ ens = Unused /\ stats = Unused
    /\ \E north, east \in 1..MaxGrid, res \in {<<10, 10>>, <<10, 20>>},
          origin \in {<<0, 0>>, <<100, 50>>} :
          grid = [num_north |-> north, num_east |-> east,
                  res_x |-> res[1], res_y |-> res[2],
                  utm_west |-> origin[1], utm_south |-> origin[2]]
    /\ perimeter_poly \in Perimeters(grid)
    /\ burn = << >>
    /\ gpc = "input"
    /\ perimeters = Unused /\ perimeters_merged = Unused
    /\ others = Unused /\ sched = Unused /\ subs = Unused /\ poll = Unused
    /\ layer = Unused /\ lraised = Unused
    /\ ls = Unused /\ disk = Unused /\ werr = Unused
    /\ rd = Unused /\ phase = Unused /\ nset = Unused
    /\ size = Unused /\ job_id = Unused /\ log = Unused
    /\ exported = Unused /\ pp = Unused

NextBurn == BurnMap

SpecBurn == InitBurn /\ [][NextBurn]_vars

\* Case.computeBurnMaps: self.burn, an array of n_steps rasters, and
\* self.burn[i] for each merged perimeter
computeBurnMaps(g, merged) ==
    [shape |-> <<Len(merged), g.num_north, g.num_east>>,
     maps |-> [i \in 1..Len(merged) |-> burnMap(g, merged[i].geometry)]]

ComputeBurnMaps ==
    /\ gpc = "merged"
    /\ burn' = computeBurnMaps(grid, perimeters_merged)
    /\ gpc' = "maps"
    /\ UNCHANGED <<perimeters, perimeters_merged, grid, perimeter_poly,
                   caseVars, postVars, layerVars, lcpVars, ensVars>>

\* the geometries of merged perimeters: a fire in one cell, a larger one,
\* one over the whole landscape, and one of two parts
Fronts(g) ==
    {{box(g.utm_west, g.utm_south, g.utm_west + 5, g.utm_south + 5)},
     {box(g.utm_west, g.utm_south, g.utm_west + 15, g.utm_south + 10)},
     {box(g.utm_west - 10, g.utm_south - 10, g.utm_west + 40, g.utm_south + 40)},
     {box(g.utm_west, g.utm_south, g.utm_west + 5, g.utm_south + 5),
      box(g.utm_west + 15, g.utm_south + 5, g.utm_west + 20, g.utm_south + 15)}}

\* a landscape and the merged perimeters of a case: none before readOutput,
\* one per output time after it
InitMaps ==
    /\ heap = Unused /\ ens = Unused /\ stats = Unused
    /\ \E north, east \in 1..MaxGrid, res \in {<<10, 10>>, <<10, 20>>},
          origin \in {<<0, 0>>, <<100, 50>>} :
          grid = [num_north |-> north, num_east |-> east,
                  res_x |-> res[1], res_y |-> res[2],
                  utm_west |-> origin[1], utm_south |-> origin[2]]
    /\ \E n \in 0..MaxPerims : \E fronts \in [1..n -> Fronts(grid)] :
          perimeters_merged = [k \in 1..n |->
                                 [Elapsed_Mi |-> 60 * k, geometry |-> fronts[k]]]
    /\ burn = << >>
    /\ gpc = "merged"
    /\ perimeters = Unused /\ perimeter_poly = Unused
    /\ others = Unused /\ sched = Unused /\ subs = Unused /\ poll = Unused
    /\ layer = Unused /\ lraised = Unused
    /\ ls = Unused /\ disk = Unused /\ werr = Unused
    /\ rd = Unused /\ phase = Unused /\ nset = Unused
    /\ size = Unused /\ job_id = Unused /\ log = Unused
    /\ exported = Unused /\ pp = Unused

NextMaps == ComputeBurnMaps

SpecMaps == InitMaps /\ [][NextMaps]_vars

(***************************************************************************)
(* Ensemble.computeStatistics (ensemble.py): the burn-fraction table.  A   *)
(* DataFrame is its number of rows, its column labels in order and, for    *)
(* each column, its values.                                                *)
(***************************************************************************)
\* np.nan, as a fraction no series holds
NaN == <<0, 0>>

\* pd.DataFrame()
DataFrame == [rows |-> 0, columns |-> << >>, data |-> << >>]

NaNs(n) == [k \in 1..n |-> NaN]

\* the position of a column label, 0 when the table has no such column
ColumnAt(df, col) ==
    IF \E k \in 1..Len(df.columns) : df.columns[k] = col
    THEN CHOOSE k \in 1..Len(df.columns) : df.columns[k] = col
    ELSE 0

\* df[col] = np.nan: a new last column, or an existing one overwritten
setColumnNaN(df, col) ==
    IF ColumnAt(df, col) = 0
    THEN [df EXCEPT !.columns = Append(@, col), !.data = Append(@, NaNs(df.rows))]
    ELSE [df EXCEPT !.data[ColumnAt(df, col)] = NaNs(df.rows)]

\* df.reindex(list(range(0, n))).reset_index(drop=True): rows 0..n-1, the
\* rows the table did not have are NaN
reindex(df, n) ==
    [df EXCEPT !.rows = n,
               !.data = [c \in 1..Len(df.data) |->
                            [k \in 1..n |-> IF k <= df.rows THEN df.data[c][k] ELSE NaN]]]

\* df.loc[0:n-1, col] = vals: the rows 0..n-1 of the column, which is made
\* (as NaN) when the table does not have it
locSet(df, n, col, vals) ==
    LET d == IF ColumnAt(df, col) = 0 THEN setColumnNaN(df, col) ELSE df
        c == ColumnAt(d, col)
    IN  [d EXCEPT !.data[c] = [k \in 1..d.rows |-> IF k <= n THEN vals[k] ELSE @[k]]]

\* Case.burnFraction: burned cells / total cells per timestep
burnFraction(o) == [t \in 1..Len(o.burned) |-> Float(o.burned[t], o.cells)]

\* Case.readOutput opens the ASCII grids first: open() raises
\* FileNotFoundError when the case has no outputs
readOutputRaises(o) == ~o.exists

\* np.gradient(burn_radius, timestep, axis=0) needs two rows at least
gradientRaises(df) == df.rows < 2

\* one round of the loop of computeStatistics, for case stats.i
StatsCase ==
    /\ stats.pc = "loop"
    /\ stats.i < size
    /\ LET i == stats.i
           o == stats.out[i + 1]
           bf == stats.burn_fraction
           burn_fraction_i == burnFraction(o)
           n == Len(burn_fraction_i)
       IN  IF caseIDRaises
           THEN stats' = [stats EXCEPT !.pc = "raised"]
           ELSE IF readOutputRaises(o)
           THEN stats' = [stats EXCEPT !.i = i + 1,
                              !.burn_fraction = setColumnNaN(bf, caseID(i))]
           ELSE stats' = [stats EXCEPT !.i = i + 1,
                              !.burn_fraction =
                                  locSet(IF n > bf.rows THEN reindex(bf, n)
                                         ELSE setColumnNaN(bf, caseID(i)),
                                         n, caseID(i), burn_fraction_i)]
    /\ UNCHANGED <<size, job_id, log, exported, pp, heap, ens>>
    /\ UNCHANGED <<layerVars, lcpVars, geoVars, caseVars>>

\* after the loop: the burn radius and the front speed of the table
StatsDerive ==
    /\ stats.pc = "loop"
    /\ stats.i = size
    /\ stats' = [stats EXCEPT !.pc = IF gradientRaises(stats.burn_fraction)
                                     THEN "raised" ELSE "derived"]
    /\ UNCHANGED <<size, job_id, log, exported, pp, heap, ens>>
    /\ UNCHANGED <<layerVars, lcpVars, geoVars, caseVars>>

\* the series of burned cells a case's outputs hold, of a landscape of two cells
Series == UNION {[1..n -> {1, 2}] : n \in 1..MaxSteps}

Outputs ==
    {[exists |-> FALSE, burned |-> << >>, cells |-> 2]}
    \cup {[exists |-> TRUE, burned |-> b, cells |-> 2] : b \in Series}

InitStats ==
    /\ heap = Unused /\ ens = Unused
    /\ size \in 1..(MaxCases + 1)
    /\ \E out \in [1..size -> Outputs] :
          stats = [pc |-> "loop", i |-> 0, out |-> out, burn_fraction |-> DataFrame]
    /\ exported = Unused /\ job_id = Unused /\ log = Unused /\ pp = Unused
    /\ perimeters = Unused /\ perimeters_merged = Unused /\ grid = Unused
    /\ perimeter_poly = Unused /\ burn = Unused /\ gpc = Unused
    /\ others = Unused /\ sched = Unused /\ subs = Unused /\ poll = Unused
    /\ layer = Unused /\ lraised = Unused
    /\ ls = Unused /\ disk = Unused /\ werr = Unused /\ rd = Unused
    /\ phase = Unused /\ nset = Unused

NextStats == StatsCase \/ StatsDerive

SpecStats == InitStats /\ [][NextStats]_vars

(***************************************************************************)
(* The claims about the landscape record.                                  *)
(***************************************************************************)
Declared(l, g) == g.north = l.num_north /\ g.east = l.num_east

\* the layers whose band is in the record, judged by the flags
BandNames(l) ==
    _LAYER_NAMES_REQUIRED
    \o (IF l.crown_fuels = 21 THEN _LAYER_NAMES_CROWN ELSE << >>)
    \o (IF l.ground_fuels = 21 THEN _LAYER_NAMES_GROUND ELSE << >>)

\* flags, bounds, dimensions and resolution of two landscapes agree
SameFields(a, b) ==
    /\ a.crown_fuels = b.crown_fuels /\ a.ground_fuels = b.ground_fuels
    /\ a.lo_east = b.lo_east /\ a.hi_east = b.hi_east
    /\ a.lo_north = b.lo_north /\ a.hi_north = b.hi_north
    /\ a.utm_east = b.utm_east /\ a.utm_west = b.utm_west
    /\ a.utm_north = b.utm_north /\ a.utm_south = b.utm_south
    /\ a.num_north = b.num_north /\ a.num_east = b.num_east
    /\ a.res_x = b.res_x /\ a.res_y = b.res_y

Cells(l) == l.num_north * l.num_east

\* the values of cell c (row-major, from 0) in the layers `names`
CellValues(l, names, c) ==
    [p \in 1..Len(names) |->
       Cell(l.layers[names[p]].data, c \div l.num_east, c % l.num_east)]

\* C8: the body a completed writeLCP wrote has num_north * num_east * 5 * 2
\* bytes when both flags are OFF and num_north * num_east * 10 * 2 bytes
\* when both are ON, and every cell holds the required bands, then the crown
\* bands iff crown_fuels is ON, then the ground bands iff ground_fuels is ON.
C8_BandLayout ==
    phase \in {"written", "read"} =>
       /\ Tell(disk.header) = _HEADER_LENGTH
       /\ (ls.crown_fuels = 20 /\ ls.ground_fuels = 20) =>
             2 * Len(disk.body) = Cells(ls) * 5 * 2
       /\ (ls.crown_fuels = 21 /\ ls.ground_fuels = 21) =>
             2 * Len(disk.body) = Cells(ls) * 10 * 2
       /\ LET names == BandNames(ls)
              nb == Len(names)
          IN  /\ Len(disk.body) = Cells(ls) * nb
              /\ \A c \in 0..(Cells(ls) - 1) :
                    SubSeq(disk.body, c * nb + 1, (c + 1) * nb)
                       = CellValues(ls, names, c)

\* A landscape with both flags ON and a density grid was written with ten
\* bands per cell.
C8_Witness ==
    /\ phase = "written"
    /\ ls.crown_fuels = 21 /\ ls.ground_fuels = 21
    /\ ls.layers["density"].data = CountGrid(ls.num_north, ls.num_east, 1)
    /\ Len(disk.body) = Cells(ls) * 10
    /\ disk.body[8] = 1

\* the int16 values per cell in the written body and in the body read
BandsIn(S) ==
    /\ phase \in {"written", "read"} => \E b \in S : Len(disk.body) = Cells(ls) * b
    /\ phase = "read" => \E b \in S : rd.data_i = Cells(ls) * b * 2

\* C9 as stated: with valid flags the number of int16 bands per cell in an
\* encoded or decoded body is one of 5, 8 or 10.
C9_BandsFiveEightTen == BandsIn({5, 8, 10})

\* C9, amended: with valid flags the number of int16 bands per cell in an
\* encoded or decoded body is one of 5, 7, 8 or 10.
C9_BandsFiveSevenEightTen == BandsIn({5, 7, 8, 10})

\* A body with seven bands per cell (crown OFF, ground ON) was written and
\* read back.
C9_Witness ==
    /\ phase = "read"
    /\ ls.crown_fuels = 20 /\ ls.ground_fuels = 21
    /\ Len(disk.body) = Cells(ls) * 7
    /\ rd.data_i = Cells(ls) * 7 * 2

\* C10: when a required layer's grid has not the declared shape, writeLCP
\* fails with an error and writes nothing.
C10_MismatchWritesNothing ==
    (/\ phase \in {"written", "failed"}
     /\ \E name \in Range(_LAYER_NAMES_REQUIRED) : ~Declared(ls, ls.layers[name].data))
    => /\ werr # ""
       /\ disk = NoFile

\* the header record of the summary the Layer.data setter derives from g
DerivedRecord(g) ==
    LET d == DataSetter(NewLayer(1, 1), g).layer
    IN  _buildLoHiNumVal(d.lo, d.hi, d.num, d.vals)

\* the header written for the landscape l holds, for every layer with a
\* non-empty grid, the summary derived from the layer's data
FreshSummaries(l, header) ==
    \A k \in 1..Len(_LAYER_NAMES) :
       LET data == l.layers[_LAYER_NAMES[k]].data
       IN  GridSize(data) > 0 => header[2 + k] = DerivedRecord(data)

\* C11: the lo/hi/num/vals record writeLCP puts in the header for a layer
\* is the summary derived from the layer's data at the moment of writing,
\* also when the grid was changed in place after it was assigned or after
\* the landscape was decoded.
C11_HeaderSummaryFresh ==
    /\ phase = "written" => FreshSummaries(ls, disk.header)
    /\ phase = "rewritten" /\ werr = "" => FreshSummaries(rd.l, disk.header)

\* lo and hi of the layer l are the least and the greatest cell of its grid
LoHiOfData(l) ==
    GridSize(l.data) > 0 =>
       /\ l.lo = amin(Range(l.data.v))
       /\ l.hi = amax(Range(l.data.v))

\* C12: in every state of a Layer, after construction, after assignments to
\* Layer.data and after its Landscape was decoded from a record (a layer
\* whose band is absent included), lo is the minimum and hi the maximum of
\* the layer's data grid.
C12_LoHiAreMinMax ==
    /\ \A name \in Range(_LAYER_NAMES) : LoHiOfData(ls.layers[name])
    /\ (phase = "read" /\ rd.err = "") =>
          \A name \in Range(_LAYER_NAMES) : LoHiOfData(rd.l.layers[name])

\* a string of the landscape l needs more bytes than its header field has
StringTooLong(l) ==
    \/ Len(encode(l.description)) > _DESCRIPTION_LENGTH
    \/ \E name \in Range(_LAYER_NAMES) :
          Len(encode(l.layers[name].file)) > _FILE_STRING_LENGTH

\* C13: a writeLCP that completes has written exactly 7,316 header bytes, a
\* description or file reference that does not fit its field makes the
\* write fail, and readLCP returns no Landscape from a file whose header
\* part is shorter than 7,316 bytes, whatever the grid dimensions.
C13_HeaderExact ==
    /\ phase = "written" => Tell(disk.header) = _HEADER_LENGTH
    /\ (phase \in {"written", "failed"} /\ StringTooLong(ls)) => werr # ""
    /\ (phase = "read" /\ rd.err = "") => Tell(disk.header) >= _HEADER_LENGTH

(***************************************************************************)
(* The claims about the perimeters and the burn map.                       *)
(***************************************************************************)
InputTimes == {perimeters[k].Elapsed_Mi : k \in 1..Len(perimeters)}

\* C14: the merged output has exactly one entry per distinct elapsed time
\* of the input, in strictly ascending time order, and no entry covers
\* records of different times.
C14_OneEntryPerTime ==
    gpc = "merged" =>
       /\ Len(perimeters_merged) = Cardinality(InputTimes)
       /\ \A k \in 1..(Len(perimeters_merged) - 1) :
             perimeters_merged[k].Elapsed_Mi < perimeters_merged[k + 1].Elapsed_Mi
       /\ \A k \in 1..Len(perimeters_merged) :
             \A i \in perimeters_merged[k].geometry.region :
                perimeters[i].Elapsed_Mi = perimeters_merged[k].Elapsed_Mi

\* the records whose boundaries are in merged entry k
Group(k) == perimeters_merged[k].geometry.region

\* the first record of a set of records
First(g) == CHOOSE i \in g : \A j \in g : i <= j

\* C25: every record contributes to exactly one merged entry.  The groups
\* of the merged entries are runs of consecutive records, they follow one
\* another in the order of the input and cover it up to its last record;
\* a group is the run of records whose time is close to the time of its
\* first record, and the union of a group is a valid geometry.
C25_EveryRecordInOneGroup ==
    gpc = "merged" =>
       /\ UNION {Group(k) : k \in 1..Len(perimeters_merged)} = 1..Len(perimeters)
       /\ \A k \in 1..Len(perimeters_merged) :
             /\ Group(k) # {}
             /\ perimeters_merged[k].geometry.valid
             /\ \A a, b \in Group(k) : a..b \subseteq Group(k)
             /\ \A i \in Group(k) :
                   isclose(perimeters[i].Elapsed_Mi,
                           perimeters[First(Group(k))].Elapsed_Mi)
             /\ \A l \in (k + 1)..Len(perimeters_merged) :
                   /\ \A a \in Group(k), b \in Group(l) : a < b
                   /\ ~isclose(perimeters[First(Group(l))].Elapsed_Mi,
                               perimeters[First(Group(k))].Elapsed_Mi)
                      \/ l > k + 1

\* three records in two groups, one of them of two records and one record
\* repaired
C25_Witness ==
    /\ gpc = "merged"
    /\ Len(perimeters) = 3
    /\ Len(perimeters_merged) = 2
    /\ \E i \in 1..Len(perimeters) : ~perimeters[i].valid
    /\ \E k \in 1..Len(perimeters_merged) : Cardinality(Group(k)) = 2

\* the points of cell (i, j): column j from the west, row i from the south
GridCell(i, j) ==
    [x0 |-> grid.utm_west + j * grid.res_x, x1 |-> grid.utm_west + (j + 1) * grid.res_x,
     y0 |-> grid.utm_south + i * grid.res_y, y1 |-> grid.utm_south + (i + 1) * grid.res_y]

\* the area of cell (i, j) that the perimeter covers
Covered(i, j) == intersectionArea(GridCell(i, j), perimeter_poly)

GridCells == (0..(grid.num_north - 1)) \X (0..(grid.num_east - 1))

\* C15: the burn map holds 1.0 for a cell inside the perimeter, the covered
\* fraction of its area for a cell partly covered and 0.0 for any other
\* cell; so it is all 1.0 when the perimeter contains the grid and all 0.0
\* when the perimeter is apart from the grid.
C15_BurnCoverage ==
    gpc = "burnt" =>
       /\ \A c \in GridCells :
             LET area == grid.res_x * grid.res_y
                 value == Cell(burn, c[1], c[2])
             IN  /\ Covered(c[1], c[2]) = area => value = <<1, 1>>
                 /\ Covered(c[1], c[2]) \in 1..(area - 1) =>
                       /\ value[1] * area = Covered(c[1], c[2]) * value[2]
                       /\ value[1] < value[2]
                 /\ Covered(c[1], c[2]) = 0 => value = <<0, 1>>
       /\ (\E b \in perimeter_poly :
              /\ b.x0 <= grid.utm_west /\ b.y0 <= grid.utm_south
              /\ b.x1 >= grid.utm_west + grid.num_east * grid.res_x
              /\ b.y1 >= grid.utm_south + grid.num_north * grid.res_y)
          => \A c \in GridCells : Cell(burn, c[1], c[2]) = <<1, 1>>
       /\ (\A b \in perimeter_poly :
              \/ b.x1 < grid.utm_west \/ b.y1 < grid.utm_south
              \/ b.x0 > grid.utm_west + grid.num_east * grid.res_x
              \/ b.y0 > grid.utm_south + grid.num_north * grid.res_y)
          => \A c \in GridCells : Cell(burn, c[1], c[2]) = <<0, 1>>

\* a 2 x 2 grid of cells of size 10 and a polygon over all of cell (0, 0)
\* and half of cell (0, 1) gave [[1.0, 0.5], [0.0, 0.0]]
C15_Witness ==
    /\ gpc = "burnt"
    /\ grid = [num_north |-> 2, num_east |-> 2, res_x |-> 10, res_y |-> 10,
               utm_west |-> 0, utm_south |-> 0]
    /\ perimeter_poly = {[x0 |-> 0, y0 |-> 0, x1 |-> 15, y1 |-> 10]}
    /\ burn.v = <<<<1, 1>>, <<1, 2>>, <<0, 1>>, <<0, 1>>>>

\* C26: after computeBurnMaps the burn array has the shape [number of
\* merged perimeters][num_north][num_east]; raster i is the raster of merged
\* perimeter i (its cells are positive where that perimeter covers part of
\* the cell, and nowhere else) and every value lies in [0, 1].
C26_BurnTensor ==
    gpc = "maps" =>
       /\ burn.shape = <<Len(perimeters_merged), grid.num_north, grid.num_east>>
       /\ Len(burn.maps) = Len(perimeters_merged)
       /\ \A i \in 1..Len(burn.maps) :
             /\ burn.maps[i].north = grid.num_north
             /\ burn.maps[i].east = grid.num_east
             /\ Len(burn.maps[i].v) = grid.num_north * grid.num_east
             /\ \A c \in GridCells :
                   LET value == Cell(burn.maps[i], c[1], c[2])
                       covered == intersectionArea(GridCell(c[1], c[2]),
                                                   perimeters_merged[i].geometry)
                   IN  /\ value[2] > 0
                       /\ 0 <= value[1] /\ value[1] <= value[2]
                       /\ value[1] > 0 <=> covered > 0

\* two merged perimeters with different rasters, one of them with a cell
\* partly burnt
C26_Witness ==
    /\ gpc = "maps"
    /\ Len(burn.maps) = 2
    /\ burn.maps[1] # burn.maps[2]
    /\ \E k \in 1..Len(burn.maps[1].v) :
          0 < burn.maps[1].v[k][1] /\ burn.maps[1].v[k][1] < burn.maps[1].v[k][2]

(***************************************************************************)
(* The claims about the status of a case and its submission.               *)
(***************************************************************************)
\* C16: a case that has no job id, or whose root directory holds no log of
\* its job, is not started, not done and has not failed to ignite, whatever
\* other files the directory holds.
C16_NoLogNotStarted ==
    \A c \in Cases :
       (job_id[c] = None \/ ~log[c].exists) =>
          ~isStarted(c) /\ ~isDone(c) /\ ~ignitionFailed(c)

\* C17: a done case is started and a case that failed to ignite is started;
\* when the log of the case's job has no launch line the case is neither
\* done nor failed, whichever other lines the log has.
C17_DoneOrFailedIsStarted ==
    \A c \in Cases :
       /\ isDone(c) => isStarted(c)
       /\ ignitionFailed(c) => isStarted(c)
       /\ (/\ job_id[c] # None /\ log[c].exists
           /\ log[c].lines \cap {WRITING, NO_IGNITION} # {}
           /\ LAUNCH \notin log[c].lines) =>
             ~isDone(c) /\ ~ignitionFailed(c)

\* NOT_SUBMITTED, SUBMITTED, STARTED, then IGNITION_FAILED or DONE
Rank(c) ==
    IF job_id[c] = None THEN 0
    ELSE IF ~isStarted(c) THEN 1
    ELSE IF isDone(c) \/ ignitionFailed(c) THEN 3
    ELSE 2

\* C18: with one submission and a log that only grows, the status of a case
\* never goes back: a started case stays started, a done case stays done, a
\* case that failed to ignite stays so, and none is done or failed before it
\* is started.
C18_StatusAdvances ==
    [][\A c \in Cases :
          /\ Rank(c)' >= Rank(c)
          /\ isStarted(c) => isStarted(c)'
          /\ isDone(c) => isDone(c)'
          /\ ignitionFailed(c) => ignitionFailed(c)'
          /\ (isDone(c)' \/ ignitionFailed(c)') => isStarted(c)']_vars

\* C19: a status query changes no job id, no log and no other file, and the
\* same query made again right after it returns the value it returned.
C19_QueriesArePure ==
    [][poll'.n # poll.n =>
          /\ job_id' = job_id /\ log' = log /\ others' = others
          /\ poll'.r = Answer(poll.c, poll.q)']_vars

\* a second query of a submitted case with a log answered true
C19_Witness ==
    /\ poll.n = 2 /\ poll.r
    /\ job_id[poll.c] # None /\ log[poll.c].exists

\* the cases the scheduler took a job of
Submitted == {subs[k].c : k \in 1..Len(subs)}

\* the job id of the last submission of case c
LastJob(c) ==
    LET last == CHOOSE k \in 1..Len(subs) :
                   /\ subs[k].c = c
                   /\ \A h \in (k + 1)..Len(subs) : subs[h].c # c
    IN  subs[last].id

\* C20: a case that was never run has no job id, and a case that was run
\* holds, in the ensemble's own object, the job id the scheduler gave to its
\* last submission; a run leaves the job ids of the other cases as they were.
C20_RunRecordsJobId ==
    \A c \in Cases :
       job_id[c] = IF c \in Submitted THEN <<LastJob(c)>> ELSE None

\* Ensemble.run([1]) on two cases, after a job of someone else took id 1
C20_Witness ==
    /\ size = 2
    /\ subs = <<[c |-> 1, id |-> 2]>>
    /\ job_id[0] = None /\ job_id[1] = <<2>>

(***************************************************************************)
(* The claims about Ensemble.postProcess.                                  *)
(***************************************************************************)
Unfinished(c) == postProcessCase(c) = NOT_DONE_YET

\* C1: a postProcess call with attempts = n >= 1 and a case of case_ids that
\* never reaches DONE or IGNITION_FAILED makes exactly n passes and returns
\* with the ID of that case in the returned list.  (The logs only grow, so
\* a case that is unfinished at the return was unfinished in every pass.)
C1_RetryTermination ==
    /\ pp.pc = "raised" => pp.attempts = 0
    /\ pp.pc = "returned" /\ pp.attempts >= 1 =>
          \A c \in Range(pp.case_ids) :
             Unfinished(c) =>
                /\ pp.passes = pp.attempts
                /\ caseID(c) \in Range(pp.ret)

\* C2: batch isolation.  When postProcess returns from a call with the
\* default case_ids on an ensemble where exactly case k never finishes and
\* every other case is done, exported is true for every case but k, false
\* for k, and the returned list is exactly [caseID(k)].
C2_BatchIsolation ==
    pp.pc = "returned" =>
       \A k \in Cases :
          (Unfinished(k) /\ \A c \in Cases \ {k} : postProcessCase(c) = DONE) =>
             /\ exported = [c \in Cases |-> c # k]
             /\ pp.ret = <<caseID(k)>>

\* A batch of 4 cases where case 2 never finished has returned.
C2_Witness ==
    /\ pp.pc = "returned"
    /\ size = 4
    /\ Unfinished(2)
    /\ exported = [c \in Cases |-> c # 2]
    /\ pp.ret = <<caseID(2)>>
    /\ pp.passes = 3

\* C3: when postProcess returns, every case of case_ids has its exported
\* flag true or its ID in the returned list.
C3_NoCaseDropped ==
    pp.pc = "returned" =>
       \A c \in Range(pp.case_ids) : exported[c] \/ caseID(c) \in Range(pp.ret)

\* C4: in every pass the cases handed to the workers are exactly the cases
\* of case_ids whose own exported flag is false.
C4_HandedAreUnexported ==
    pp.pc = "pool" =>
       Range(pp.indices_to_export) = {c \in Range(pp.case_ids) : ~exported[c]}

AllDone(res) == \A k \in 1..Len(res) : res[k] = DONE

\* C5: the pass in which no case is ignition-failed or not done ends the
\* call with an empty list; every other pass is followed by the sleep, and
\* the sleep by another pass while fewer than `attempts` passes were made;
\* no call makes more than `attempts` passes.
C5_StopOrRetry ==
    [][ /\ (pp.pc = "pool" /\ pp'.pc # "pool") =>
             IF AllDone(pp.results)
             THEN pp'.pc = "returned" /\ pp'.ret = << >>
             ELSE pp'.pc = "sleep"
        /\ (pp.pc = "sleep" /\ pp'.pc # "sleep") =>
             IF pp.passes < pp.attempts
             THEN pp'.pc = "attempt"
             ELSE pp'.pc = "returned"
        /\ pp'.passes <= pp'.attempts ]_vars

\* C29: the status of a submitted case is read from the log of its own job
\* and from no other file: logFile finds the log of the case's job when it
\* exists and nothing when it does not, whichever other logs the root
\* directory holds.
C29_OnlyOwnLog ==
    \A c \in Cases :
       job_id[c] # None =>
          /\ logFile(c) = log[c]
          /\ isStarted(c) = (log[c].exists /\ LAUNCH \in log[c].lines)
          /\ isDone(c) = (log[c].exists /\ {LAUNCH, WRITING} \subseteq log[c].lines)
          /\ ignitionFailed(c) =
                (log[c].exists /\ {LAUNCH, NO_IGNITION} \subseteq log[c].lines)

\* a Case with its sub-objects in place of their addresses
View(h, a) ==
    [h[a] EXCEPT !.lcp = h[h[a].lcp], !.sbatch = h[h[a].sbatch],
                 !.weather = h[h[a].weather]]

\* C21: the cases of an ensemble and the prototype share no mutable state:
\* an assignment to a field or inside a sub-object of one of them leaves
\* every other case, and the prototype, as they were.
C21_NoSharedState ==
    [][(ens'.nmut # ens.nmut) =>
          \A a, b \in CaseObjects :
             (View(heap', a) # View(heap, a) /\ a # b) =>
                View(heap', b) = View(heap, b)]_vars

\* the layer data of the second case and the options of the prototype were
\* changed, and the first case has neither change
C21_Witness ==
    /\ size = 2
    /\ View(heap, ens.cases[2]).lcp = <<9, 0>>
    /\ View(heap, Prototype).sbatch = <<1, 9>>
    /\ View(heap, ens.cases[1]) = View(NewCase, Prototype)

\* C22: caseID(i) is defined for every case of an ensemble of one case or
\* more, the setters of name and root_dir do not fail, and after them the
\* cases have names and root directories that differ from case to case.
C22_CaseIdsDistinct ==
    /\ ~ens.raised
    /\ \A i, j \in 1..size :
          i # j =>
             /\ caseID(i - 1) # caseID(j - 1)
             /\ ens._name # None /\ ens.nmut = 0 =>
                   heap[ens.cases[i]].name # heap[ens.cases[j]].name
             /\ ens._root_dir # None =>
                   heap[ens.cases[i]].root_dir # heap[ens.cases[j]].root_dir

\* C23: whatever the order in which the workers of a pass finish, the flags
\* change only when the main process handles the results after all of them
\* are in; a worker changes no flag, no job id and no log; and the flag of
\* every case handled becomes whether the status that case produced is DONE,
\* the flags of the other cases staying as they were.
C23_FlagsSetByMainProcess ==
    [][ /\ pp.pc = "pool" =>
             \A k \in 1..Len(pp.results) :
                pp.results[k] # PENDING =>
                   pp.results[k] = postProcessCase(pp.indices_to_export[k])
        /\ (pp.pc = "pool" /\ pp'.pc = "pool") =>
             exported' = exported /\ job_id' = job_id /\ log' = log
        /\ exported' # exported =>
             /\ pp.pc = "pool"
             /\ \A k \in 1..Len(pp.results) : pp.results[k] # PENDING
        /\ (pp.pc = "pool" /\ pp'.pc \in {"returned", "sleep"}) =>
             \A c \in Cases :
                exported'[c] =
                   IF c \in Range(pp.indices_to_export)
                   THEN postProcessCase(c) = DONE
                   ELSE exported[c] ]_vars

\* two workers returned different statuses and the main process set the
\* flag of each of the two cases from its own status
C23_Witness ==
    /\ pp.pc = "sleep"
    /\ pp.indices_to_export = <<1, 0>>
    /\ pp.results = <<DONE, NOT_DONE_YET>>
    /\ exported[1] /\ ~exported[0]

\* C27: postProcess with attempts = 0 returns a list, having processed no
\* case and changed no flag; it does not fail.
C27_ZeroAttemptsReturns ==
    [][(pp.pc = "idle" /\ pp'.pc # "idle" /\ pp'.attempts = 0) =>
          /\ pp'.pc = "returned"
          /\ pp'.passes = 0
          /\ exported' = exported]_vars

BothSentinels(c) ==
    isStarted(c) /\ {NO_IGNITION, WRITING} \subseteq logFile(c).lines

Present == {c \in 0..(size - 1) : stats.out[c + 1].exists}
Absent == {c \in 0..(size - 1) : ~stats.out[c + 1].exists}

\* a series right-padded with NaN to n rows
Padded(vals, n) == [k \in 1..n |-> IF k <= Len(vals) THEN vals[k] ELSE NaN]

\* case c has a column under its own ID: its series, or NaN in every row
\* when it has no outputs
Recorded(c) ==
    LET df == stats.burn_fraction
        col == ColumnAt(df, caseID(c))
    IN  /\ col # 0
        /\ df.data[col] = Padded(burnFraction(stats.out[c + 1]), df.rows)

\* the series of the cases that have outputs are too short for a gradient
TooShort == Present # {} /\ \A c \in Present : Len(stats.out[c + 1].burned) < 2

\* C24: in computeStatistics a case without outputs is recorded as a NaN
\* column under its own case ID and the aggregation goes on with the other
\* cases: every case the loop has passed has its own column holding its own
\* series, and the aggregation aborts only when no case lacks its outputs
\* or the series at hand are too short to differentiate.
C24_AbsentRecordedAsMissing ==
    /\ \A c \in 0..(stats.i - 1) : Recorded(c)
    /\ stats.pc = "raised" => (Absent = {} \/ TooShort)

====
